---- MODULE Spec2Model ----
(***************************************************************************)
(* Kryptopoly server (src/index.js): the session state machine of one     *)
(* game, its GM-driven phase/step graph, the per-step commit handlers and  *)
(* the per-viewer projection.  One Game aggregate is modelled (the store   *)
(* `games` holds it under gameId "g1"); every socket handler is one action *)
(* that takes the payload fields as parameters.  Timestamps (ts, joinedAt, *)
(* createdAt) and socket presence (connected) are left out: no handler     *)
(* modelled here reads them.                                               *)
(***************************************************************************)
EXTENDS Integers, Sequences, FiniteSets, TLC

VARIABLES game, ack, nEvents

vars == <<game, ack, nEvents>>

(* ---------------------------------------------------------------------- *)
(* Bounds of the model                                                     *)
(* ---------------------------------------------------------------------- *)
\* players that can be in the roster (GM included); clampPlayers allows 1..6
MaxRoster == 2
\* how many of the 12 catalog markets the model uses
MaxMarkets == 2
\* largest bid (in USD) a payload carries
MaxBid == 1
\* accepted player events (commits) in one run of a whole game (Spec)
MaxEvents == 1
\* accepted pick_market events in one run (SpecMove)
MaxMoves == 3
\* accepted market_pick_commit events in one run (SpecPick), and its years
MaxPicks == 3
MaxLegacyYears == 2
\* accepted player events in one audit of the legacy server (SpecShield)
MaxShieldEvents == 6
\* accepted auction commits in one run (SpecAuction)
MaxBids == 3
\* accepted player events in one audit (SpecSettle)
MaxAudit == 4
\* accepted events of the one player that acts in SpecPower
MaxPower == 6
\* pending attacks of all players together, and player events of one run, in
\* the specification of the final computation
MaxAttacks == 4
MaxFinal == 3
\* investment cards of one continent and of another one in an inventory, and
\* player events of one run, in the specification of the audit preview
MaxGroup == 6
MaxOther == 1
MaxPreview == 2
\* card events of one run in the specification of the card pool
MaxCardEvents == 3
\* the legacy server: experts the GM holds, and accepted lawyer events
MaxLegacyExperts == 2
MaxLegacyEvents == 3
\* the largest maxPlayers of a lobby
MaxLobby == 3
\* lawyers spent on trends in one run, and lawyers player 1 holds
MaxLawyerUses == 2
MaxLawyers == 2
\* how many of the 48 investments, 4 mining farms and 30 experts of the
\* catalog the model uses (the first ones)
MaxInvestments == 2
MaxFarms == 1
MaxExperts == 5

(* ---------------------------------------------------------------------- *)
(* Values                                                                  *)
(* ---------------------------------------------------------------------- *)
\* JS null in a string-valued field (phase, bizStep, marketId)
Null == "null"
\* JS null in a USD amount (a pass / no bid); stored amounts are >= 0
NoAmount == -1
\* a payload without playerId (undefined), also the empty lock of a market
NoPid == 0

\* playerIds: shortId() values; the k-th player created gets id k
Pids == 1..MaxRoster
\* who may send an event: no playerId, or any id (in the roster or not)
Callers == {NoPid} \cup Pids

GameId == "g1"
GameIds == {GameId, "other"}

markets12 == <<"M01", "M02", "M03", "M04", "M05", "M06",
               "M07", "M08", "M09", "M10", "M11", "M12">>
\* CATALOG.markets, cut to the first MaxMarkets
CatalogMarkets == {markets12[i] : i \in 1..MaxMarkets}
\* marketId values of a payload: a catalog market or an unknown one
MarketInputs == CatalogMarkets \cup {"M99"}

COINS == {"BTC", "ETH", "LTC", "SIA"}

\* cardIds: "TI001" is <<"TI", 1>>, "MF001" <<"MF", 1>>, "EX001" <<"EX", 1>>
InvestmentIds == {<<"TI", n>> : n \in 1..MaxInvestments}
FarmIds == {<<"MF", n>> : n \in 1..MaxFarms}
ExpertIds == {<<"EX", n>> : n \in 1..MaxExperts}
\* a payload's cardId that trims to "", and one that is in no catalog
NoCard == <<"", 0>>
UnknownCard == <<"ZZ", 1>>

\* JS object used as a map: a function whose DOMAIN is the set of keys
EmptyMap == [k \in {} |-> 0]
Put(m, k, v) == [x \in (DOMAIN m) \cup {k} |-> IF x = k THEN v ELSE m[x]]
Has(m, k) == k \in DOMAIN m
\* Object.values(m).some(pred)
Values(m) == {m[k] : k \in DOMAIN m}

Max(a, b) == IF a >= b THEN a ELSE b
Min(a, b) == IF a <= b THEN a ELSE b

(* A numeric payload value: null, a number given in halves (so that        *)
(* Math.floor has something to do), or something Number() maps to NaN.     *)
RawNull == [k |-> "null", h |-> 0]
RawNaN == [k |-> "nan", h |-> 0]
RawNum(h) == [k |-> "num", h |-> h]
RawAmounts == {RawNull, RawNaN} \cup {RawNum(h) : h \in -1..(2 * MaxBid + 1)}

\* Number.isFinite(Number(val)) && !(val < 0)
ValidAmount(raw) == raw.k = "num" /\ raw.h >= 0
\* Math.floor(Number(val))
FloorAmount(raw) == raw.h \div 2

(* ---------------------------------------------------------------------- *)
(* Names: String(name||"").trim(), and normName's trim().toLowerCase()     *)
(* ---------------------------------------------------------------------- *)
Trim(n) ==
  CASE n = " " -> ""
    [] n = "ann " -> "ann"
    [] n = "bob " -> "bob"
    [] OTHER -> n
Lower(n) ==
  CASE n = "Ann" -> "ann"
    [] n = "Bob" -> "bob"
    [] n = "Cy" -> "cy"
    [] n = "Hrac" -> "hrac"
    [] OTHER -> n
normName(n) == Lower(Trim(n))

clampPlayers(n) == Max(1, Min(6, n))
clampYears(n) == IF n = 5 THEN 5 ELSE 4

makePlayer(id, name, role, seatIndex) ==
  [ playerId |-> id,
    name |-> IF Trim(name) = "" THEN "Hrac" ELSE Trim(name),
    role |-> role,
    seatIndex |-> seatIndex,
    marketId |-> Null,
    wallet |-> [c \in COINS |-> 3] ]

blankInventory == [investments |-> <<>>, miningFarms |-> <<>>, experts |-> <<>>]

\* isNameTaken comparing the names as they were typed
isNameTakenExact(g, name) ==
  \E i \in 1..Len(g.players) : g.players[i].name = name

isNameTaken(g, name) ==
  \E i \in 1..Len(g.players) : normName(g.players[i].name) = normName(name)

\* first seat of 1..5 that no player holds, 0 when there is none (JS null)
nextFreeSeatIndex(g) ==
  LET used == {g.players[i].seatIndex : i \in 1..Len(g.players)}
      free == {s \in 1..5 : s \notin used}
  IN IF free = {} THEN 0 ELSE CHOOSE s \in free : \A t \in free : s <= t

newGame(gmName, yearsTotal, maxPlayers) ==
  [ gameId |-> GameId,
    status |-> "LOBBY",
    config |-> [yearsTotal |-> clampYears(yearsTotal),
                maxPlayers |-> clampPlayers(maxPlayers)],
    players |-> <<makePlayer(1, gmName, "GM", 0)>>,
    trends |-> EmptyMap,
    lawyer |-> [protections |-> {}, notices |-> EmptyMap],
    inventory |-> Put(EmptyMap, 1, blankInventory),
    availableCards |-> [ investments |-> InvestmentIds,
                         miningFarms |-> FarmIds,
                         experts |-> ExpertIds ],
    year |-> 0,
    phase |-> Null,
    bizStep |-> Null,
    biz |-> [ mlBids |-> EmptyMap,
              move |-> EmptyMap,
              marketLocks |-> EmptyMap,
              auction |-> [entries |-> EmptyMap, lobbyistPhaseActive |-> FALSE],
              acquire |-> [entries |-> EmptyMap] ],
    crypto |-> [ rates |-> [c \in COINS |->
                             CASE c = "BTC" -> 8000 [] c = "ETH" -> 4000
                               [] c = "LTC" -> 2000 [] OTHER -> 1000],
                 entries |-> EmptyMap ],
    settle |-> [stage |-> "PREVIEW", entries |-> EmptyMap, pending |-> EmptyMap] ]

(* ---------------------------------------------------------------------- *)
(* Lookups                                                                 *)
(* ---------------------------------------------------------------------- *)
getGame(gid) == gid = game.gameId
RosterIds(g) == {g.players[i].playerId : i \in 1..Len(g.players)}
InRoster(g, pid) == pid \in RosterIds(g)
PlayerIndex(g, pid) == CHOOSE i \in 1..Len(g.players) : g.players[i].playerId = pid
getPlayer(g, pid) == g.players[PlayerIndex(g, pid)]

\* isGM with the test start_game makes (playerId && !isGM): no playerId passes
isGMOrNoId(g, pid) == pid = NoPid \/ (InRoster(g, pid) /\ getPlayer(g, pid).role = "GM")

isGM(g, pid) == InRoster(g, pid) /\ getPlayer(g, pid).role = "GM"

(* ---------------------------------------------------------------------- *)
(* Trend timeline                                                          *)
(* ---------------------------------------------------------------------- *)
\* a global trend of the catalog: its key and its lawyer descriptor
Trend(key, allowed, phase) == [key |-> key, lawyerAllowed |-> allowed, lawyerPhase |-> phase]
\* the one crypto trend and the one global trend index.js itself defines
\* (loadGlobalTrends / loadCryptoTrends when data/*.json is not there)
FallbackGlobals == {Trend("ENERGY_CRISIS", FALSE, Null)}
FallbackCoeff == [c \in COINS |-> 1]

\* generateTrends: per year the globals drawn and the crypto trend's coeff
generateTrends(yearsTotal, globalsOf, coeffOf) ==
  [y \in 1..yearsTotal |-> [year |-> y, globals |-> globalsOf[y], coeff |-> coeffOf[y]]]
FallbackTimeline(yearsTotal) ==
  generateTrends(yearsTotal, [y \in 1..yearsTotal |-> FallbackGlobals],
                 [y \in 1..yearsTotal |-> FallbackCoeff])

YearOr1(g) == IF g.year = 0 THEN 1 ELSE g.year
currentYearGlobals(g) ==
  IF Has(g.trends, YearOr1(g)) THEN g.trends[YearOr1(g)].globals ELSE {}
currentYearHasCrypto(g) == Has(g.trends, YearOr1(g))
hasTrend(g, k) == \E t \in currentYearGlobals(g) : t.key = k

isProtectedFrom(g, pid, trendKey) ==
  <<pid, YearOr1(g), trendKey>> \in g.lawyer.protections

addNotice(lw, pid, year, trendKey) ==
  [lw EXCEPT !.notices =
     Put(lw.notices, pid,
         Append(IF Has(lw.notices, pid) THEN lw.notices[pid] ELSE <<>>,
                [year |-> year, trendKey |-> trendKey]))]

\* the wallet of one player after the year-start triggers, in the code's order:
\* exchange hack (halved, unless protected), then the two forks (doubled)
TriggeredWallet(g, p) ==
  LET hack == hasTrend(g, "EXCHANGE_HACK") /\ ~isProtectedFrom(g, p.playerId, "EXCHANGE_HACK")
      w1 == [c \in COINS |-> IF hack THEN p.wallet[c] \div 2 ELSE p.wallet[c]]
      w2 == [c \in COINS |->
               IF hasTrend(g, "FORK_BTC_ETH") /\ c \in {"BTC", "ETH"} THEN w1[c] * 2 ELSE w1[c]]
  IN [c \in COINS |->
        IF hasTrend(g, "FORK_LTC_SIA") /\ c \in {"LTC", "SIA"} THEN w2[c] * 2 ELSE w2[c]]

RECURSIVE TriggerNotices(_, _, _)
\* the notices the loop over game.players adds, player by player
TriggerNotices(g, lw, i) ==
  IF i > Len(g.players) THEN lw
  ELSE LET pid == g.players[i].playerId
           l1 == IF hasTrend(g, "EXCHANGE_HACK") /\ isProtectedFrom(g, pid, "EXCHANGE_HACK")
                 THEN addNotice(lw, pid, YearOr1(g), "EXCHANGE_HACK") ELSE lw
           l2 == IF hasTrend(g, "HYPERINFLATION_USD_HALVE")
                    /\ isProtectedFrom(g, pid, "HYPERINFLATION_USD_HALVE")
                 THEN addNotice(l1, pid, YearOr1(g), "HYPERINFLATION_USD_HALVE") ELSE l1
       IN TriggerNotices(g, l2, i + 1)

applyTrendTriggers_OnTrendsToML(g) ==
  LET rates == IF currentYearHasCrypto(g)
               THEN [c \in COINS |-> Max(1, g.crypto.rates[c] * g.trends[YearOr1(g)].coeff[c])]
               ELSE g.crypto.rates
  IN [g EXCEPT !.crypto.rates = rates,
               !.players = [i \in 1..Len(g.players) |->
                              [g.players[i] EXCEPT !.wallet = TriggeredWallet(g, g.players[i])]],
               !.lawyer = TriggerNotices(g, g.lawyer, 1)]

(* ---------------------------------------------------------------------- *)
(* Phase / step state machine                                              *)
(* ---------------------------------------------------------------------- *)
resetStepData(g) ==
  [g EXCEPT !.biz = [ mlBids |-> EmptyMap,
                      move |-> EmptyMap,
                      marketLocks |-> [m \in CatalogMarkets |-> NoPid],
                      auction |-> [entries |-> EmptyMap, lobbyistPhaseActive |-> FALSE],
                      acquire |-> [entries |-> EmptyMap] ],
            !.settle = [stage |-> "PREVIEW", entries |-> EmptyMap, pending |-> EmptyMap],
            !.crypto.entries = EmptyMap]

\* the last loop of startNewYear: an inventory for every player that has none
WithInventories(g) ==
  [g EXCEPT !.inventory =
     [pid \in (DOMAIN g.inventory) \cup RosterIds(g) |->
        IF Has(g.inventory, pid) THEN g.inventory[pid] ELSE blankInventory]]

startNewYear(g) ==
  WithInventories(
    applyTrendTriggers_OnTrendsToML(
      resetStepData([g EXCEPT !.year = g.year + 1, !.phase = "BIZ", !.bizStep = "ML_BID"])))

\* canBack without the CRYPTO phase's test
canBackNoCrypto(g) ==
  IF g.status # "IN_PROGRESS" THEN FALSE
  ELSE IF g.phase = "BIZ" /\ g.bizStep = "ML_BID"
    THEN ~\E v \in Values(g.biz.mlBids) : v.committed
  ELSE IF g.phase = "BIZ" /\ g.bizStep = "MOVE"
    THEN ~\E v \in Values(g.biz.move) : v.committed
  ELSE IF g.phase = "BIZ" /\ g.bizStep = "AUCTION_ENVELOPE"
    THEN ~\E v \in Values(g.biz.auction.entries) : v.committed \/ v.finalCommitted
  ELSE IF g.phase = "BIZ" /\ g.bizStep = "ACQUIRE"
    THEN ~\E v \in Values(g.biz.acquire.entries) : v.committed
  ELSE IF g.phase = "CRYPTO" THEN TRUE
  ELSE IF g.phase = "SETTLE"
    THEN ~\E v \in Values(g.settle.entries) : v.started \/ v.paid
  ELSE FALSE

canBack(g) ==
  IF g.status # "IN_PROGRESS" THEN FALSE
  ELSE IF g.phase = "BIZ" /\ g.bizStep = "ML_BID"
    THEN ~\E v \in Values(g.biz.mlBids) : v.committed
  ELSE IF g.phase = "BIZ" /\ g.bizStep = "MOVE"
    THEN ~\E v \in Values(g.biz.move) : v.committed
  ELSE IF g.phase = "BIZ" /\ g.bizStep = "AUCTION_ENVELOPE"
    THEN ~\E v \in Values(g.biz.auction.entries) : v.committed \/ v.finalCommitted
  ELSE IF g.phase = "BIZ" /\ g.bizStep = "ACQUIRE"
    THEN ~\E v \in Values(g.biz.acquire.entries) : v.committed
  ELSE IF g.phase = "CRYPTO"
    THEN ~\E v \in Values(g.crypto.entries) : v.committed
  ELSE IF g.phase = "SETTLE"
    THEN ~\E v \in Values(g.settle.entries) : v.started \/ v.paid
  ELSE FALSE

\* gmNext that leaves bizStep as it is when BIZ ends
gmNextKeepsStep(g) ==
  IF g.phase = "BIZ" THEN
    IF g.bizStep = "ML_BID" THEN [g EXCEPT !.bizStep = "MOVE"]
    ELSE IF g.bizStep = "MOVE" THEN [g EXCEPT !.bizStep = "AUCTION_ENVELOPE"]
    ELSE IF g.bizStep = "AUCTION_ENVELOPE"
      THEN [g EXCEPT !.biz.auction.lobbyistPhaseActive = FALSE, !.bizStep = "ACQUIRE"]
    ELSE IF g.bizStep = "ACQUIRE" THEN [g EXCEPT !.phase = "CRYPTO"]
    ELSE g
  ELSE IF g.phase = "CRYPTO" THEN [g EXCEPT !.phase = "SETTLE"]
  ELSE IF g.phase = "SETTLE" THEN
    IF g.year >= g.config.yearsTotal
      THEN [g EXCEPT !.status = "GAME_OVER", !.phase = Null, !.bizStep = Null]
      ELSE startNewYear(g)
  ELSE g

\* gmNext that stays in the SETTLE of the last year
gmNextNoEnd(g) ==
  IF g.phase = "BIZ" THEN
    IF g.bizStep = "ML_BID" THEN [g EXCEPT !.bizStep = "MOVE"]
    ELSE IF g.bizStep = "MOVE" THEN [g EXCEPT !.bizStep = "AUCTION_ENVELOPE"]
    ELSE IF g.bizStep = "AUCTION_ENVELOPE"
      THEN [g EXCEPT !.biz.auction.lobbyistPhaseActive = FALSE, !.bizStep = "ACQUIRE"]
    ELSE IF g.bizStep = "ACQUIRE" THEN [g EXCEPT !.phase = "CRYPTO", !.bizStep = Null]
    ELSE g
  ELSE IF g.phase = "CRYPTO" THEN [g EXCEPT !.phase = "SETTLE"]
  ELSE IF g.phase = "SETTLE" THEN
    IF g.year >= g.config.yearsTotal THEN g ELSE startNewYear(g)
  ELSE g

gmNext(g) ==
  IF g.phase = "BIZ" THEN
    IF g.bizStep = "ML_BID" THEN [g EXCEPT !.bizStep = "MOVE"]
    ELSE IF g.bizStep = "MOVE" THEN [g EXCEPT !.bizStep = "AUCTION_ENVELOPE"]
    ELSE IF g.bizStep = "AUCTION_ENVELOPE"
      THEN [g EXCEPT !.biz.auction.lobbyistPhaseActive = FALSE, !.bizStep = "ACQUIRE"]
    ELSE IF g.bizStep = "ACQUIRE" THEN [g EXCEPT !.phase = "CRYPTO", !.bizStep = Null]
    ELSE g
  ELSE IF g.phase = "CRYPTO" THEN [g EXCEPT !.phase = "SETTLE"]
  ELSE IF g.phase = "SETTLE" THEN
    IF g.year >= g.config.yearsTotal
      THEN [g EXCEPT !.status = "GAME_OVER", !.phase = Null, !.bizStep = Null]
      ELSE startNewYear(g)
  ELSE g

gmBack(g) ==
  IF g.phase = "BIZ" THEN
    IF g.bizStep = "MOVE" THEN [g EXCEPT !.bizStep = "ML_BID"]
    ELSE IF g.bizStep = "AUCTION_ENVELOPE" THEN [g EXCEPT !.bizStep = "MOVE"]
    ELSE IF g.bizStep = "ACQUIRE"
      THEN [g EXCEPT !.biz.auction.lobbyistPhaseActive = FALSE, !.bizStep = "AUCTION_ENVELOPE"]
    ELSE g
  ELSE IF g.phase = "CRYPTO" THEN [g EXCEPT !.phase = "BIZ", !.bizStep = "ACQUIRE"]
  ELSE IF g.phase = "SETTLE" THEN [g EXCEPT !.phase = "CRYPTO"]
  ELSE g

(* ---------------------------------------------------------------------- *)
(* Acknowledgements.  ack is the last acknowledgement sent: the event it  *)
(* answers, ok, the error code, whether broadcast(game) ran (a game_state  *)
(* push to every bound socket), and the USD amount an ok acknowledgement   *)
(* carries (settlementUsd, amountUsd; else 0).                             *)
(* ---------------------------------------------------------------------- *)
Ack(ev, pid, ok, code, pushed) ==
  [event |-> ev, ok |-> ok, code |-> code, pushed |-> pushed, value |-> 0]

\* ackOk(cb); broadcast(game) after the aggregate became g2
Accept(ev, pid, g2) ==
  /\ game' = g2
  /\ ack' = Ack(ev, pid, TRUE, "OK", TRUE)
  /\ UNCHANGED nEvents
\* the same for a player's event, which the model counts
Commit(ev, pid, g2) ==
  /\ game' = g2
  /\ ack' = Ack(ev, pid, TRUE, "OK", TRUE)
  /\ nEvents' = nEvents + 1
\* return ackErr(cb, ..., code) with the aggregate as g2 (game when untouched)
Reject(ev, pid, code, g2) ==
  /\ game' = g2
  /\ ack' = Ack(ev, pid, FALSE, code, FALSE)
  /\ UNCHANGED nEvents

(* ---------------------------------------------------------------------- *)
(* Socket handlers: session and GM                                         *)
(* ---------------------------------------------------------------------- *)
join_game(gid, name) ==
  /\ LET n == Trim(name)
         id == Len(game.players) + 1
         seat == nextFreeSeatIndex(game)
     IN IF ~getGame(gid) THEN Reject("join_game", NoPid, "NOT_FOUND", game)
        ELSE IF game.status # "LOBBY" THEN Reject("join_game", NoPid, "IN_PROGRESS", game)
        ELSE IF n = "" THEN Reject("join_game", NoPid, "NAME_REQUIRED", game)
        ELSE IF isNameTaken(game, n) THEN Reject("join_game", NoPid, "NAME_TAKEN", game)
        ELSE IF Len(game.players) >= game.config.maxPlayers
          THEN Reject("join_game", NoPid, "FULL", game)
        ELSE IF seat = 0 THEN Reject("join_game", NoPid, "FULL", game)
        ELSE Accept("join_game", id,
               [game EXCEPT !.players = Append(game.players, makePlayer(id, n, "PLAYER", seat)),
                            !.inventory = Put(game.inventory, id, blankInventory)])

\* start_game without the test of game.status
start_game_again(gid, pid, timeline) ==
  /\ IF ~getGame(gid) THEN Reject("start_game", pid, "NOT_FOUND", game)
     ELSE IF pid # NoPid /\ ~isGM(game, pid) THEN Reject("start_game", pid, "FORBIDDEN", game)
     ELSE Accept("start_game", pid,
            startNewYear([game EXCEPT !.status = "IN_PROGRESS", !.trends = timeline, !.year = 0]))

start_game(gid, pid, timeline) ==
  /\ IF ~getGame(gid) THEN Reject("start_game", pid, "NOT_FOUND", game)
     ELSE IF pid # NoPid /\ ~isGM(game, pid) THEN Reject("start_game", pid, "FORBIDDEN", game)
     ELSE IF game.status # "LOBBY" THEN Reject("start_game", pid, "BAD_STATE", game)
     ELSE Accept("start_game", pid,
            startNewYear([game EXCEPT !.status = "IN_PROGRESS", !.trends = timeline, !.year = 0]))

gm_next(gid, pid) ==
  /\ IF ~getGame(gid) THEN Reject("gm_next", pid, "NOT_FOUND", game)
     ELSE IF ~isGM(game, pid) THEN Reject("gm_next", pid, "FORBIDDEN", game)
     ELSE Accept("gm_next", pid, gmNext(game))

gm_back(gid, pid) ==
  /\ IF ~getGame(gid) THEN Reject("gm_back", pid, "NOT_FOUND", game)
     ELSE IF ~isGM(game, pid) THEN Reject("gm_back", pid, "FORBIDDEN", game)
     ELSE IF ~canBack(game) THEN Reject("gm_back", pid, "GUARD_FAIL", game)
     ELSE Accept("gm_back", pid, gmBack(game))

(* ---------------------------------------------------------------------- *)
(* Socket handlers: the commits of the BIZ steps and of CRYPTO             *)
(* ---------------------------------------------------------------------- *)
\* val===null ? null : Math.floor(Number(val))
StoredAmount(raw) == IF raw.k = "null" THEN NoAmount ELSE FloorAmount(raw)

commit_ml_bid(gid, pid, amountUsd) ==
  IF ~getGame(gid) THEN Reject("commit_ml_bid", pid, "NOT_FOUND", game)
  ELSE IF game.phase # "BIZ" \/ game.bizStep # "ML_BID"
    THEN Reject("commit_ml_bid", pid, "BAD_STATE", game)
  ELSE IF amountUsd.k # "null" /\ ~ValidAmount(amountUsd)
    THEN Reject("commit_ml_bid", pid, "BAD_INPUT", game)
  ELSE Commit("commit_ml_bid", pid,
         [game EXCEPT !.biz.mlBids =
            Put(game.biz.mlBids, pid, [amountUsd |-> StoredAmount(amountUsd), committed |-> TRUE])])

pick_market(gid, pid, marketId) ==
  IF ~getGame(gid) THEN Reject("pick_market", pid, "NOT_FOUND", game)
  ELSE IF game.phase # "BIZ" \/ game.bizStep # "MOVE"
    THEN Reject("pick_market", pid, "BAD_STATE", game)
  ELSE IF Has(game.biz.move, pid) /\ game.biz.move[pid].committed
    THEN Reject("pick_market", pid, "ALREADY", game)
  ELSE IF ~Has(game.biz.marketLocks, marketId)
    THEN Reject("pick_market", pid, "BAD_INPUT", game)
  ELSE IF game.biz.marketLocks[marketId] # NoPid /\ game.biz.marketLocks[marketId] # pid
    THEN Reject("pick_market", pid, "LOCKED", game)
  ELSE
    LET prev == IF InRoster(game, pid) THEN getPlayer(game, pid).marketId ELSE Null
        released == IF prev # Null /\ Has(game.biz.marketLocks, prev)
                    THEN [game.biz.marketLocks EXCEPT ![prev] = NoPid]
                    ELSE game.biz.marketLocks
        players2 == [i \in 1..Len(game.players) |->
                       IF game.players[i].playerId = pid
                       THEN [game.players[i] EXCEPT !.marketId = marketId]
                       ELSE game.players[i]]
    IN Commit("pick_market", pid,
         [game EXCEPT !.biz.marketLocks = [released EXCEPT ![marketId] = pid],
                      !.players = players2,
                      !.biz.move = Put(game.biz.move, pid,
                                       [marketId |-> marketId, committed |-> TRUE])])

\* allCommitted with some in the place of every
someCommitted(g, entries) ==
  \E p \in RosterIds(g) : Has(entries, p) /\ entries[p].committed

\* game.players.every(p=>entries[p.playerId]?.committed)
allCommitted(g, entries) ==
  \A p \in RosterIds(g) : Has(entries, p) /\ entries[p].committed
\* Object.values(entries).some(v=>v?.usedLobbyist)
anyLobby(entries) == \E v \in Values(entries) : v.usedLobbyist

commit_auction_bid(gid, pid, bidUsd, usedLobbyist) ==
  IF ~getGame(gid) THEN Reject("commit_auction_bid", pid, "NOT_FOUND", game)
  ELSE IF game.phase # "BIZ" \/ game.bizStep # "AUCTION_ENVELOPE"
    THEN Reject("commit_auction_bid", pid, "BAD_STATE", game)
  ELSE IF bidUsd.k # "null" /\ ~ValidAmount(bidUsd)
    THEN Reject("commit_auction_bid", pid, "BAD_INPUT", game)
  ELSE
    LET entries == Put(game.biz.auction.entries, pid,
                       [ bidUsd |-> StoredAmount(bidUsd),
                         committed |-> TRUE,
                         usedLobbyist |-> usedLobbyist,
                         finalBidUsd |-> NoAmount,
                         finalCommitted |-> FALSE ])
        open == allCommitted(game, entries) /\ anyLobby(entries)
    IN Commit("commit_auction_bid", pid,
         [game EXCEPT !.biz.auction.entries = entries,
                      !.biz.auction.lobbyistPhaseActive =
                         IF open THEN TRUE ELSE game.biz.auction.lobbyistPhaseActive])

gm_open_lobbyist_window(gid, pid) ==
  IF ~getGame(gid) THEN Reject("gm_open_lobbyist_window", pid, "NOT_FOUND", game)
  ELSE IF ~isGM(game, pid) THEN Reject("gm_open_lobbyist_window", pid, "FORBIDDEN", game)
  ELSE IF game.phase # "BIZ" \/ game.bizStep # "AUCTION_ENVELOPE"
    THEN Reject("gm_open_lobbyist_window", pid, "BAD_STATE", game)
  ELSE IF ~allCommitted(game, game.biz.auction.entries)
    THEN Reject("gm_open_lobbyist_window", pid, "GUARD_FAIL", game)
  ELSE IF ~anyLobby(game.biz.auction.entries)
    THEN Reject("gm_open_lobbyist_window", pid, "GUARD_FAIL", game)
  ELSE Accept("gm_open_lobbyist_window", pid,
         [game EXCEPT !.biz.auction.lobbyistPhaseActive = TRUE])

\* commit_auction_final_bid that asks for an entry, not for its lobbyist flag
commit_auction_final_bid_anyEntry(gid, pid, finalBidUsd) ==
  IF ~getGame(gid) THEN Reject("commit_auction_final_bid", pid, "NOT_FOUND", game)
  ELSE IF game.phase # "BIZ" \/ game.bizStep # "AUCTION_ENVELOPE"
    THEN Reject("commit_auction_final_bid", pid, "BAD_STATE", game)
  ELSE IF ~game.biz.auction.lobbyistPhaseActive
    THEN Reject("commit_auction_final_bid", pid, "BAD_STATE", game)
  ELSE IF ~Has(game.biz.auction.entries, pid)
    THEN Reject("commit_auction_final_bid", pid, "FORBIDDEN", game)
  ELSE IF finalBidUsd.k # "null" /\ (finalBidUsd.k # "num" \/ FloorAmount(finalBidUsd) < 0)
    THEN Reject("commit_auction_final_bid", pid, "BAD_INPUT", game)
  ELSE Commit("commit_auction_final_bid", pid,
         [game EXCEPT !.biz.auction.entries[pid] =
            [@ EXCEPT !.finalBidUsd = StoredAmount(finalBidUsd), !.finalCommitted = TRUE]])

commit_auction_final_bid(gid, pid, finalBidUsd) ==
  IF ~getGame(gid) THEN Reject("commit_auction_final_bid", pid, "NOT_FOUND", game)
  ELSE IF game.phase # "BIZ" \/ game.bizStep # "AUCTION_ENVELOPE"
    THEN Reject("commit_auction_final_bid", pid, "BAD_STATE", game)
  ELSE IF ~game.biz.auction.lobbyistPhaseActive
    THEN Reject("commit_auction_final_bid", pid, "BAD_STATE", game)
  ELSE IF ~(Has(game.biz.auction.entries, pid) /\ game.biz.auction.entries[pid].usedLobbyist)
    THEN Reject("commit_auction_final_bid", pid, "FORBIDDEN", game)
  ELSE IF finalBidUsd.k # "null" /\ (finalBidUsd.k # "num" \/ FloorAmount(finalBidUsd) < 0)
    THEN Reject("commit_auction_final_bid", pid, "BAD_INPUT", game)
  ELSE Commit("commit_auction_final_bid", pid,
         [game EXCEPT !.biz.auction.entries[pid] =
            [@ EXCEPT !.finalBidUsd = StoredAmount(finalBidUsd), !.finalCommitted = TRUE]])

commit_acquire(gid, pid, gotCard) ==
  IF ~getGame(gid) THEN Reject("commit_acquire", pid, "NOT_FOUND", game)
  ELSE IF game.phase # "BIZ" \/ game.bizStep # "ACQUIRE"
    THEN Reject("commit_acquire", pid, "BAD_STATE", game)
  ELSE Commit("commit_acquire", pid,
         [game EXCEPT !.biz.acquire.entries =
            Put(game.biz.acquire.entries, pid, [committed |-> TRUE, gotCard |-> gotCard])])

\* deltas of a payload: per coin a number in halves, or not a number
\* Math.floor(Number(deltas?.[sym]||0)) is finite
DeltaOk(deltas) == \A c \in COINS : deltas[c].k # "nan"
CleanDeltas(deltas) ==
  [c \in COINS |-> IF deltas[c].k = "num" THEN FloorAmount(deltas[c]) ELSE 0]
DeltaUsd(g, clean) ==
  (0 - clean["BTC"]) * g.crypto.rates["BTC"] + (0 - clean["ETH"]) * g.crypto.rates["ETH"]
  + (0 - clean["LTC"]) * g.crypto.rates["LTC"] + (0 - clean["SIA"]) * g.crypto.rates["SIA"]

commit_crypto(gid, pid, deltas) ==
  IF ~getGame(gid) THEN Reject("commit_crypto", pid, "NOT_FOUND", game)
  ELSE IF game.phase # "CRYPTO" THEN Reject("commit_crypto", pid, "BAD_STATE", game)
  ELSE IF ~DeltaOk(deltas) THEN Reject("commit_crypto", pid, "BAD_INPUT", game)
  ELSE Commit("commit_crypto", pid,
         [game EXCEPT !.crypto.entries =
            Put(game.crypto.entries, pid,
                [ deltas |-> CleanDeltas(deltas),
                  deltaUsd |-> DeltaUsd(game, CleanDeltas(deltas)),
                  committed |-> TRUE ])])

(* ---------------------------------------------------------------------- *)
(* Catalog and inventories                                                 *)
(* ---------------------------------------------------------------------- *)
USD_UNIT == 1000

continents == <<"EUROPE", "ASIA", "AFRICA", "N_AMERICA", "S_AMERICA", "OCEANIA">>
types == <<"AGRO", "INDUSTRY", "MINING", "ENERGY", "TECH", "LOGISTICS">>
expertFuncs == <<"ANALYST", "CRYPTOGURU", "LAWYER_TRENDS", "LOBBY_LASTCALL", "STEAL_BASE_PROD">>
farmCoins == <<"BTC", "ETH", "LTC", "SIA">>
farmProduction == <<3, 6, 12, 24>>

\* CATALOG.investments[n-1], n in 1..48
InvestmentCard(n) ==
  [ cardId |-> <<"TI", n>>, kind |-> "INVESTMENT",
    continent |-> continents[((n - 1) % 6) + 1],
    type |-> types[((n - 1) % 6) + 1],
    usdProduction |-> 2 + (n % 7) ]
\* CATALOG.miningFarms[n-1], n in 1..4
FarmCard(n) ==
  [ cardId |-> <<"MF", n>>, kind |-> "MINING_FARM",
    crypto |-> farmCoins[n], cryptoProduction |-> farmProduction[n], electricityUSD |-> 12000 ]
\* CATALOG.experts[n-1], n in 1..30, as claim_card stores it: { ...card, used:false }
ExpertCard(n) ==
  [ cardId |-> <<"EX", n>>, kind |-> "EXPERT",
    functionKey |-> expertFuncs[((n - 1) % 5) + 1], used |-> FALSE ]

\* CATALOG.investments.find(...) || CATALOG.miningFarms.find(...) || CATALOG.experts.find(...)
InCatalog(cardId) == cardId \in InvestmentIds \cup FarmIds \cup ExpertIds
CatalogCard(cardId) ==
  CASE cardId[1] = "TI" -> InvestmentCard(cardId[2])
    [] cardId[1] = "MF" -> FarmCard(cardId[2])
    [] OTHER -> ExpertCard(cardId[2])
\* the key of the availability set, and of the inventory list, of a kind
SetOf(kind) ==
  CASE kind = "INVESTMENT" -> "investments"
    [] kind = "MINING_FARM" -> "miningFarms"
    [] OTHER -> "experts"

InventoryOf(g, pid) == IF Has(g.inventory, pid) THEN g.inventory[pid] ELSE blankInventory

countAvailableExperts(inv, functionKey) ==
  Cardinality({i \in 1..Len(inv.experts) :
                 inv.experts[i].functionKey = functionKey /\ ~inv.experts[i].used})

\* index of inv.experts.find(e => e.functionKey===functionKey && !e.used), 0 if none
FirstUnused(experts, functionKey) ==
  LET free == {i \in 1..Len(experts) : experts[i].functionKey = functionKey /\ ~experts[i].used}
  IN IF free = {} THEN 0 ELSE CHOOSE i \in free : \A j \in free : i <= j

\* ex.used = true on that expert
MarkUsed(experts, i) == [experts EXCEPT ![i].used = TRUE]

\* index of list.findIndex(c => c.cardId===id), 0 if none
FindCard(list, cardId) ==
  LET at == {i \in 1..Len(list) : list[i].cardId = cardId}
  IN IF at = {} THEN 0 ELSE CHOOSE i \in at : \A j \in at : i <= j
\* list.splice(idx, 1)
Without(list, idx) ==
  [k \in 1..(Len(list) - 1) |-> IF k < idx THEN list[k] ELSE list[k + 1]]

\* TakeCard without set.delete(card.cardId)
TakeCardKeepsAvailable(ev, gid, pid, cardId) ==
  IF ~getGame(gid) THEN Reject(ev, pid, "NOT_FOUND", game)
  ELSE IF cardId = NoCard THEN Reject(ev, pid, "BAD_INPUT", game)
  ELSE IF ~InCatalog(cardId) THEN Reject(ev, pid, "UNKNOWN", game)
  ELSE LET card == CatalogCard(cardId)
           key == SetOf(card.kind)
           inv == InventoryOf(game, pid)
       IN IF cardId \notin game.availableCards[key]
            THEN Reject(ev, pid, "NOT_AVAILABLE", game)
          ELSE Commit(ev, pid,
                 [game EXCEPT !.inventory = Put(game.inventory, pid,
                                                [inv EXCEPT ![key] = Append(@, card)])])

\* claim_card and scan_card have the same body
TakeCard(ev, gid, pid, cardId) ==
  IF ~getGame(gid) THEN Reject(ev, pid, "NOT_FOUND", game)
  ELSE IF cardId = NoCard THEN Reject(ev, pid, "BAD_INPUT", game)
  ELSE IF ~InCatalog(cardId) THEN Reject(ev, pid, "UNKNOWN", game)
  ELSE LET card == CatalogCard(cardId)
           key == SetOf(card.kind)
           inv == InventoryOf(game, pid)
       IN IF cardId \notin game.availableCards[key]
            THEN Reject(ev, pid, "NOT_AVAILABLE", game)
          ELSE Commit(ev, pid,
                 [game EXCEPT !.availableCards[key] = @ \ {cardId},
                              !.inventory = Put(game.inventory, pid,
                                                [inv EXCEPT ![key] = Append(@, card)])])

claim_card(gid, pid, cardId) == TakeCard("claim_card", gid, pid, cardId)
scan_card(gid, pid, cardQr) == TakeCard("scan_card", gid, pid, cardQr)

drop_card(gid, pid, cardId) ==
  LET inv == InventoryOf(game, pid)
      iInv == FindCard(inv.investments, cardId)
      iFarm == FindCard(inv.miningFarms, cardId)
      iExp == FindCard(inv.experts, cardId)
      key == IF iInv # 0 THEN "investments" ELSE IF iFarm # 0 THEN "miningFarms" ELSE "experts"
      idx == IF iInv # 0 THEN iInv ELSE IF iFarm # 0 THEN iFarm ELSE iExp
  IN IF ~getGame(gid) THEN Reject("drop_card", pid, "NOT_FOUND", game)
     ELSE IF cardId = NoCard THEN Reject("drop_card", pid, "BAD_INPUT", game)
     ELSE IF idx = 0 THEN Reject("drop_card", pid, "NOT_OWNED", game)
     ELSE Commit("drop_card", pid,
            [game EXCEPT !.availableCards[key] = @ \cup {cardId},
                         !.inventory = Put(game.inventory, pid,
                                           [inv EXCEPT ![key] = Without(@, idx)])])

(* ---------------------------------------------------------------------- *)
(* Audit preview                                                           *)
(* ---------------------------------------------------------------------- *)
BONUS_BY_THRESHOLD == <<[n |-> 6, usd |-> 50000], [n |-> 4, usd |-> 25000], [n |-> 2, usd |-> 10000]>>

\* bonusForCount with c > t.n in place of c >= t.n
bonusForCountAbove(count) ==
  LET hit == {i \in 1..Len(BONUS_BY_THRESHOLD) : count > BONUS_BY_THRESHOLD[i].n}
  IN IF hit = {} THEN 0
     ELSE BONUS_BY_THRESHOLD[CHOOSE i \in hit : \A j \in hit : i <= j].usd

bonusForCount(count) ==
  LET hit == {i \in 1..Len(BONUS_BY_THRESHOLD) : count >= BONUS_BY_THRESHOLD[i].n}
  IN IF hit = {} THEN 0
     ELSE BONUS_BY_THRESHOLD[CHOOSE i \in hit : \A j \in hit : i <= j].usd

RECURSIVE SumOver(_, _)
\* sum of f[x] over the finite set S
SumOver(S, f) ==
  IF S = {} THEN 0 ELSE LET x == CHOOSE y \in S : TRUE IN f[x] + SumOver(S \ {x}, f)

Row(label, usd) == [label |-> label, usd |-> usd]
\* the rows of a breakdown whose condition holds, in the code's order
RECURSIVE RowsIf(_)
RowsIf(cands) ==
  IF cands = <<>> THEN <<>>
  ELSE IF Head(cands).cond THEN <<Head(cands).row>> \o RowsIf(Tail(cands))
  ELSE RowsIf(Tail(cands))

\* blockedTrendKey is Null when no trend is blocked
auditPreview(g, pid, blockedTrendKey) ==
  LET inv == InventoryOf(g, pid)
      isBlocked(key) == blockedTrendKey # Null /\ key = blockedTrendKey
      tradCards == inv.investments
      idx == 1..Len(tradCards)
      tradBase == SumOver(idx, [i \in idx |-> tradCards[i].usdProduction * USD_UNIT])
      antiMono == hasTrend(g, "ANTIMONOPOLY_NO_BONUSES") /\ ~isBlocked("ANTIMONOPOLY_NO_BONUSES")
      conts == {tradCards[i].continent : i \in idx}
      typs == {tradCards[i].type : i \in idx}
      regionBonus == IF antiMono THEN 0
        ELSE SumOver(conts, [c \in conts |->
               bonusForCount(Cardinality({i \in idx : tradCards[i].continent = c}))])
      globalBonus == IF antiMono THEN 0
        ELSE SumOver(typs, [t \in typs |->
               bonusForCount(Cardinality({i \in idx : tradCards[i].type = t}))])
      crisis == hasTrend(g, "ECONOMIC_CRISIS_NO_TRAD_BASE") /\ ~isBlocked("ECONOMIC_CRISIS_NO_TRAD_BASE")
      boom == hasTrend(g, "TRAD_INV_DOUBLE_USD")
      adj1 == IF crisis THEN 0 ELSE tradBase
      tradBaseAdj == IF boom THEN adj1 * 2 ELSE adj1
      farms == inv.miningFarms
      fidx == 1..Len(farms)
      lowDiff == hasTrend(g, "LOWER_DIFFICULTY")
      units == [c \in COINS |->
                  LET own == {i \in fidx : farms[i].crypto = c}
                      u == SumOver(own, [i \in own |-> farms[i].cryptoProduction])
                  IN IF lowDiff THEN u * 2 ELSE u]
      miningValueUsd == SumOver(COINS, [c \in COINS |-> units[c] * g.crypto.rates[c]])
      expensive == hasTrend(g, "EXPENSIVE_ELECTRICITY") /\ ~isBlocked("EXPENSIVE_ELECTRICITY")
      elec1 == SumOver(fidx, [i \in fidx |-> farms[i].electricityUSD])
      electricity == IF expensive THEN elec1 * 2 ELSE elec1
      breakdown == RowsIf(<<
        [cond |-> TRUE, row |-> Row("TRAD_BASE", tradBaseAdj)],
        [cond |-> regionBonus # 0, row |-> Row("REGION_BONUS", regionBonus)],
        [cond |-> globalBonus # 0, row |-> Row("GLOBAL_BONUS", globalBonus)],
        [cond |-> miningValueUsd # 0, row |-> Row("MINING_VALUE", miningValueUsd)],
        [cond |-> electricity # 0, row |-> Row("ELECTRICITY", 0 - electricity)],
        [cond |-> antiMono, row |-> Row("TREND_ANTIMONOPOLY", 0)],
        [cond |-> crisis, row |-> Row("TREND_CRISIS", 0)],
        [cond |-> boom, row |-> Row("TREND_BOOM", 0)],
        [cond |-> lowDiff, row |-> Row("TREND_LOWER_DIFFICULTY", 0)],
        [cond |-> expensive, row |-> Row("TREND_EXPENSIVE_ELECTRICITY", 0)],
        [cond |-> blockedTrendKey # Null, row |-> Row("LAWYER_BLOCKS_TREND", 0)] >>)
      prods == {tradCards[i].usdProduction * USD_UNIT : i \in idx}
  IN [ usd |-> tradBaseAdj + regionBonus + globalBonus + miningValueUsd - electricity,
       breakdown |-> breakdown,
       maxTradBaseCardUsd |-> IF prods = {} THEN 0 ELSE CHOOSE m \in prods : \A q \in prods : m >= q ]

(* ---------------------------------------------------------------------- *)
(* Audit: settlement entries, pending choices, final computation           *)
(* ---------------------------------------------------------------------- *)
\* pending.lawyer === null.  An entry's finalUsd may be any integer, so its
\* null is the flag finalKnown = FALSE (finalUsd and finalBreakdown unset).
NoLawyer == [mode |-> "NONE", trendKey |-> Null]

ensureSettlePlayer(g, pid) ==
  [g EXCEPT
     !.settle.entries = IF Has(g.settle.entries, pid) THEN g.settle.entries
        ELSE Put(g.settle.entries, pid,
                 [started |-> FALSE, finalUsd |-> 0, finalKnown |-> FALSE,
                  finalBreakdown |-> <<>>, paid |-> FALSE]),
     !.settle.pending = IF Has(g.settle.pending, pid) THEN g.settle.pending
        ELSE Put(g.settle.pending, pid, [lawyer |-> NoLawyer, lobby |-> <<>>])]

RECURSIVE EnsureAll(_, _)
\* ensureSettlePlayer for players[i], players[i+1], ...
EnsureAll(g, i) ==
  IF i > Len(g.players) THEN g ELSE EnsureAll(ensureSettlePlayer(g, g.players[i].playerId), i + 1)

PendingOf(g, pid) ==
  IF Has(g.settle.pending, pid) THEN g.settle.pending[pid] ELSE [lawyer |-> NoLawyer, lobby |-> <<>>]

BlockedKeyOf(pend) == IF pend.lawyer.mode = "BLOCK_TREND" THEN pend.lawyer.trendKey ELSE Null

RECURSIVE AttacksFrom(_, _, _)
\* the attacks of players[i..] aimed at target, in the order the code collects them
AttacksFrom(g, target, i) ==
  IF i > Len(g.players) THEN <<>>
  ELSE LET from == g.players[i].playerId
           lobby == PendingOf(g, from).lobby
       IN SelectSeq([k \in 1..Len(lobby) |-> [fromPid |-> from, type |-> lobby[k].type,
                                               targetPid |-> lobby[k].targetPid]],
                    LAMBDA a : a.targetPid = target)
          \o AttacksFrom(g, target, i + 1)

attacksByTarget(g, target) == AttacksFrom(g, target, 1)

\* Math.ceil(x * 0.5)
HalfUp(x) == (x + 1) \div 2
\* Math.floor(x * 0.5)
Half(x) == x \div 2
Abs(x) == IF x < 0 THEN 0 - x ELSE x

\* index (from 1) of the attack a SHIELD_LOBBY holder blocks, 0 when there is none
blockedAttack(g, base, target) ==
  LET list == attacksByTarget(g, target)
      baseUsd == base[target].usd
      dmg(i) == IF list[i].type = "STEAL" THEN base[target].maxTradBaseCardUsd
                ELSE IF list[i].type = "SABOTAGE" THEN Abs(baseUsd - Half(baseUsd))
                ELSE 0
  IN IF PendingOf(g, target).lawyer.mode # "SHIELD_LOBBY" \/ Len(list) = 0 THEN 0
     ELSE CHOOSE i \in 1..Len(list) :
            /\ \A j \in 1..Len(list) : dmg(i) >= dmg(j)
            /\ \A j \in 1..(i - 1) : dmg(j) < dmg(i)

RECURSIVE TargetAttacks(_, _, _)
\* for targets players[i..]: every attack with its place in the target's list
TargetAttacks(g, base, i) ==
  IF i > Len(g.players) THEN <<>>
  ELSE LET t == g.players[i].playerId
           list == attacksByTarget(g, t)
           b == blockedAttack(g, base, t)
       IN [k \in 1..Len(list) |-> [fromPid |-> list[k].fromPid, type |-> list[k].type,
                                    targetPid |-> t, blocked |-> (k = b)]]
          \o TargetAttacks(g, base, i + 1)

RowFrom(label, usd, who) == [label |-> label, usd |-> usd, who |-> who]

RECURSIVE ApplyStealsOneSided(_, _, _)
\* ApplySteals without the attacker's gain
ApplyStealsOneSided(attacks, base, acc) ==
  IF attacks = <<>> THEN acc
  ELSE LET a == Head(attacks)
           t == a.targetPid
           x == base[t].maxTradBaseCardUsd
           next ==
             IF a.blocked
               THEN [acc EXCEPT !.bd[t] = Append(@, Row(IF a.type = "STEAL" THEN "BLOCKED_STEAL"
                                                         ELSE "BLOCKED_SABOTAGE", 0))]
             ELSE IF a.type # "STEAL" \/ x <= 0 THEN acc
             ELSE [usd |-> [acc.usd EXCEPT ![t] = @ - x],
                   bd |-> [acc.bd EXCEPT ![t] = Append(@, RowFrom("STEAL", 0 - x, a.fromPid))]]
       IN ApplyStealsOneSided(Tail(attacks), base, next)

RECURSIVE ApplySteals(_, _, _)
\* the first loop: blocked rows and STEALs; acc = [usd, bd] per player
ApplySteals(attacks, base, acc) ==
  IF attacks = <<>> THEN acc
  ELSE LET a == Head(attacks)
           t == a.targetPid
           x == base[t].maxTradBaseCardUsd
           next ==
             IF a.blocked
               THEN [acc EXCEPT !.bd[t] = Append(@, Row(IF a.type = "STEAL" THEN "BLOCKED_STEAL"
                                                         ELSE "BLOCKED_SABOTAGE", 0))]
             ELSE IF a.type # "STEAL" \/ x <= 0 THEN acc
             ELSE LET u1 == [acc.usd EXCEPT ![t] = @ - x]
                      u2 == [u1 EXCEPT ![a.fromPid] = @ + x]
                      b1 == [acc.bd EXCEPT ![t] = Append(@, RowFrom("STEAL", 0 - x, a.fromPid))]
                      b2 == [b1 EXCEPT ![a.fromPid] = Append(@, RowFrom("STEAL", x, t))]
                  IN [usd |-> u2, bd |-> b2]
       IN ApplySteals(Tail(attacks), base, next)

RECURSIVE ApplySabotages(_, _)
\* the second loop: every SABOTAGE that is not blocked
ApplySabotages(attacks, acc) ==
  IF attacks = <<>> THEN acc
  ELSE LET a == Head(attacks)
           t == a.targetPid
           before == acc.usd[t]
           after == Half(before)
           next == IF a.blocked \/ a.type # "SABOTAGE" THEN acc
                   ELSE [usd |-> [acc.usd EXCEPT ![t] = after],
                         bd |-> [acc.bd EXCEPT ![t] =
                                   Append(@, RowFrom("SABOTAGE", after - before, a.fromPid))]]
       IN ApplySabotages(Tail(attacks), next)

\* computeAuditFinalForAll with the SABOTAGE loop before the STEAL loop
computeAuditFinalSabotageFirst(g) ==
  LET g1 == EnsureAll(g, 1)
      pids == RosterIds(g1)
      base == [pid \in pids |-> auditPreview(g1, pid, BlockedKeyOf(PendingOf(g1, pid)))]
      attacks == TargetAttacks(g1, base, 1)
      start == [usd |-> [pid \in pids |-> base[pid].usd],
                bd |-> [pid \in pids |-> base[pid].breakdown]]
      final == ApplySteals(attacks, base, ApplySabotages(attacks, start))
  IN [g1 EXCEPT
        !.settle.entries = [pid \in DOMAIN g1.settle.entries |->
           IF pid \in pids
           THEN [g1.settle.entries[pid] EXCEPT !.finalUsd = final.usd[pid],
                                               !.finalKnown = TRUE,
                                               !.finalBreakdown = final.bd[pid]]
           ELSE g1.settle.entries[pid]],
        !.settle.stage = "FINAL"]

computeAuditFinalForAll(g) ==
  LET g1 == EnsureAll(g, 1)
      pids == RosterIds(g1)
      base == [pid \in pids |-> auditPreview(g1, pid, BlockedKeyOf(PendingOf(g1, pid)))]
      attacks == TargetAttacks(g1, base, 1)
      start == [usd |-> [pid \in pids |-> base[pid].usd],
                bd |-> [pid \in pids |-> base[pid].breakdown]]
      final == ApplySabotages(attacks, ApplySteals(attacks, base, start))
  IN [g1 EXCEPT
        !.settle.entries = [pid \in DOMAIN g1.settle.entries |->
           IF pid \in pids
           THEN [g1.settle.entries[pid] EXCEPT !.finalUsd = final.usd[pid],
                                               !.finalKnown = TRUE,
                                               !.finalBreakdown = final.bd[pid]]
           ELSE g1.settle.entries[pid]],
        !.settle.stage = "FINAL"]

\* ackOk(cb, {amount}) of a player's event; pushed tells whether broadcast ran
CommitWith(ev, pid, g2, pushed, value) ==
  /\ game' = g2
  /\ ack' = [Ack(ev, pid, TRUE, "OK", pushed) EXCEPT !.value = value]
  /\ nEvents' = nEvents + 1

\* return ackOk(cb) with no broadcast after it
AcceptQuiet(ev, pid, g2) ==
  /\ game' = g2
  /\ ack' = Ack(ev, pid, TRUE, "OK", FALSE)
  /\ UNCHANGED nEvents

\* a lawyer of a payload: null is NoLawyer; mode is what the client sent
LawyerChoice(mode, trendKey) == [mode |-> mode, trendKey |-> trendKey]

trendByKey(g, key) == CHOOSE t \in currentYearGlobals(g) : t.key = key

\* canUseLawyerNow with every window open in every phase
canUseLawyerAnytime(g, trend) == trend.lawyerAllowed

canUseLawyerNow(g, trend) ==
  IF ~trend.lawyerAllowed THEN FALSE
  ELSE IF trend.lawyerPhase = "BIZ_TRENDS_ONLY" THEN g.phase = "BIZ" /\ g.bizStep = "ML_BID"
  ELSE IF trend.lawyerPhase = "BIZ_MOVE_ONLY" THEN g.phase = "BIZ" /\ g.bizStep = "MOVE"
  ELSE IF trend.lawyerPhase = "AUDIT_ANYTIME_BEFORE_CLOSE" THEN g.phase = "SETTLE"
  ELSE FALSE

use_lawyer_on_trend(gid, pid, trendKey) ==
  IF ~getGame(gid) THEN Reject("use_lawyer_on_trend", pid, "NOT_FOUND", game)
  ELSE IF game.status # "IN_PROGRESS" THEN Reject("use_lawyer_on_trend", pid, "BAD_STATE", game)
  ELSE IF ~hasTrend(game, trendKey) THEN Reject("use_lawyer_on_trend", pid, "NOT_ACTIVE", game)
  ELSE LET trend == trendByKey(game, trendKey)
           inv == InventoryOf(game, pid)
           i == FirstUnused(inv.experts, "LAWYER_TRENDS")
           y == YearOr1(game)
       IN IF ~trend.lawyerAllowed THEN Reject("use_lawyer_on_trend", pid, "NO_LAWYER", game)
          ELSE IF ~canUseLawyerNow(game, trend)
            THEN Reject("use_lawyer_on_trend", pid, "BAD_TIME", game)
          ELSE IF i = 0 THEN Reject("use_lawyer_on_trend", pid, "NO_POWER", game)
          ELSE Commit("use_lawyer_on_trend", pid,
                 [game EXCEPT
                    !.inventory = Put(@, pid, [inv EXCEPT !.experts = MarkUsed(@, i)]),
                    !.lawyer = addNotice([@ EXCEPT !.protections = @ \cup {<<pid, y, trendKey>>}],
                                         pid, y, trendKey)])

audit_set_pending_lawyer(gid, pid, lawyer) ==
  LET g0 == ensureSettlePlayer(game, pid)
      hasLawyer == countAvailableExperts(InventoryOf(g0, pid), "LAWYER_TRENDS") > 0
      set(next) == Commit("audit_set_pending_lawyer", pid,
                     [g0 EXCEPT !.settle.pending[pid].lawyer = next])
  IN IF ~getGame(gid) THEN Reject("audit_set_pending_lawyer", pid, "NOT_FOUND", game)
     ELSE IF game.phase # "SETTLE" THEN Reject("audit_set_pending_lawyer", pid, "BAD_STATE", game)
     ELSE IF g0.settle.entries[pid].started
       THEN Reject("audit_set_pending_lawyer", pid, "LOCKED", g0)
     ELSE IF lawyer # NoLawyer /\ ~hasLawyer
       THEN Reject("audit_set_pending_lawyer", pid, "NO_POWER", g0)
     ELSE IF lawyer.mode = "BLOCK_TREND" THEN
       IF lawyer.trendKey = "" THEN Reject("audit_set_pending_lawyer", pid, "BAD_INPUT", g0)
       ELSE IF ~hasTrend(g0, lawyer.trendKey)
         THEN Reject("audit_set_pending_lawyer", pid, "BAD_INPUT", g0)
       ELSE IF ~trendByKey(g0, lawyer.trendKey).lawyerAllowed
         THEN Reject("audit_set_pending_lawyer", pid, "BAD_INPUT", g0)
       ELSE set(LawyerChoice("BLOCK_TREND", lawyer.trendKey))
     ELSE IF lawyer.mode = "SHIELD_LOBBY" THEN set(LawyerChoice("SHIELD_LOBBY", Null))
     ELSE set(NoLawyer)

\* String(action?.type||"").toUpperCase()
Upper(t) == CASE t = "steal" -> "STEAL" [] t = "sabotage" -> "SABOTAGE" [] OTHER -> t

audit_add_pending_lobby(gid, pid, type, targetPid) ==
  LET g0 == ensureSettlePlayer(game, pid)
      available == countAvailableExperts(InventoryOf(g0, pid), "STEAL_BASE_PROD")
      current == Len(g0.settle.pending[pid].lobby)
  IN IF ~getGame(gid) THEN Reject("audit_add_pending_lobby", pid, "NOT_FOUND", game)
     ELSE IF game.phase # "SETTLE" THEN Reject("audit_add_pending_lobby", pid, "BAD_STATE", game)
     ELSE IF g0.settle.entries[pid].started
       THEN Reject("audit_add_pending_lobby", pid, "LOCKED", g0)
     ELSE IF current >= available THEN Reject("audit_add_pending_lobby", pid, "NO_POWER", g0)
     ELSE IF Upper(type) \notin {"STEAL", "SABOTAGE"}
       THEN Reject("audit_add_pending_lobby", pid, "BAD_INPUT", g0)
     ELSE IF targetPid = NoPid \/ ~InRoster(g0, targetPid)
       THEN Reject("audit_add_pending_lobby", pid, "BAD_INPUT", g0)
     ELSE IF targetPid = pid THEN Reject("audit_add_pending_lobby", pid, "BAD_INPUT", g0)
     ELSE Commit("audit_add_pending_lobby", pid,
            [g0 EXCEPT !.settle.pending[pid].lobby =
               Append(@, [type |-> Upper(type), targetPid |-> targetPid])])

\* Number.isInteger(Number(index)), and that integer
IndexOk(raw) == raw.k = "null" \/ (raw.k = "num" /\ raw.h % 2 = 0)
IndexOf(raw) == IF raw.k = "null" THEN 0 ELSE raw.h \div 2
\* list.splice(i, 1): a negative i counts from the end
Splice1(list, i) ==
  LET start == IF i < 0 THEN Max(Len(list) + i, 0) ELSE Min(i, Len(list))
  IN [k \in 1..(IF start < Len(list) THEN Len(list) - 1 ELSE Len(list)) |->
        IF k <= start THEN list[k] ELSE list[k + 1]]

\* audit_remove_pending_lobby without the test of entry.started
audit_remove_pending_lobby_unlocked(gid, pid, index) ==
  LET g0 == ensureSettlePlayer(game, pid)
  IN IF ~getGame(gid) THEN Reject("audit_remove_pending_lobby", pid, "NOT_FOUND", game)
     ELSE IF game.phase # "SETTLE"
       THEN Reject("audit_remove_pending_lobby", pid, "BAD_STATE", game)
     ELSE IF ~IndexOk(index) THEN Reject("audit_remove_pending_lobby", pid, "BAD_INPUT", g0)
     ELSE Commit("audit_remove_pending_lobby", pid,
            [g0 EXCEPT !.settle.pending[pid].lobby = Splice1(@, IndexOf(index))])

audit_remove_pending_lobby(gid, pid, index) ==
  LET g0 == ensureSettlePlayer(game, pid)
  IN IF ~getGame(gid) THEN Reject("audit_remove_pending_lobby", pid, "NOT_FOUND", game)
     ELSE IF game.phase # "SETTLE"
       THEN Reject("audit_remove_pending_lobby", pid, "BAD_STATE", game)
     ELSE IF g0.settle.entries[pid].started
       THEN Reject("audit_remove_pending_lobby", pid, "LOCKED", g0)
     ELSE IF ~IndexOk(index) THEN Reject("audit_remove_pending_lobby", pid, "BAD_INPUT", g0)
     ELSE Commit("audit_remove_pending_lobby", pid,
            [g0 EXCEPT !.settle.pending[pid].lobby = Splice1(@, IndexOf(index))])

RECURSIVE ConsumeLobbyists(_, _)
\* the loop over pend.lobby: k times the first unused STEAL_BASE_PROD expert is
\* marked used; stops at the first miss with what it has marked so far
ConsumeLobbyists(experts, k) ==
  IF k = 0 THEN [ok |-> TRUE, experts |-> experts]
  ELSE LET i == FirstUnused(experts, "STEAL_BASE_PROD")
       IN IF i = 0 THEN [ok |-> FALSE, experts |-> experts]
          ELSE ConsumeLobbyists(MarkUsed(experts, i), k - 1)

\* inv is game.inventory[pid] itself when the player has one: marking an
\* expert used changes the aggregate at once
WithExperts(g, pid, experts) ==
  IF Has(g.inventory, pid) THEN [g EXCEPT !.inventory[pid].experts = experts] ELSE g

\* allStarted with some() in place of every()
someStarted(g) ==
  \E p \in RosterIds(g) : Has(g.settle.entries, p) /\ g.settle.entries[p].started

allStarted(g) ==
  \A p \in RosterIds(g) : Has(g.settle.entries, p) /\ g.settle.entries[p].started

commit_settlement_ready(gid, pid) ==
  LET g0 == ensureSettlePlayer(game, pid)
      pend == g0.settle.pending[pid]
      inv == InventoryOf(g0, pid)
      iLaw == FirstUnused(inv.experts, "LAWYER_TRENDS")
      experts1 == IF pend.lawyer # NoLawyer /\ iLaw # 0 THEN MarkUsed(inv.experts, iLaw)
                  ELSE inv.experts
      lob == ConsumeLobbyists(experts1, Len(pend.lobby))
      g1 == [g0 EXCEPT !.inventory = Put(g0.inventory, pid, [inv EXCEPT !.experts = lob.experts]),
                       !.settle.entries[pid].started = TRUE,
                       !.settle.entries[pid].paid = FALSE]
  IN IF ~getGame(gid) THEN Reject("commit_settlement_ready", pid, "NOT_FOUND", game)
     ELSE IF game.phase # "SETTLE" THEN Reject("commit_settlement_ready", pid, "BAD_STATE", game)
     ELSE IF g0.settle.entries[pid].started
       THEN AcceptQuiet("commit_settlement_ready", pid, g0)
     ELSE IF pend.lawyer.mode = "BLOCK_TREND" /\ ~hasTrend(g0, pend.lawyer.trendKey)
       THEN Reject("commit_settlement_ready", pid, "BAD_INPUT", g0)
     ELSE IF pend.lawyer.mode = "BLOCK_TREND" /\ ~trendByKey(g0, pend.lawyer.trendKey).lawyerAllowed
       THEN Reject("commit_settlement_ready", pid, "BAD_INPUT", g0)
     ELSE IF pend.lawyer # NoLawyer /\ iLaw = 0
       THEN Reject("commit_settlement_ready", pid, "NO_POWER", g0)
     ELSE IF ~lob.ok
       THEN Reject("commit_settlement_ready", pid, "NO_POWER", WithExperts(g0, pid, lob.experts))
     ELSE Commit("commit_settlement_ready", pid,
            IF allStarted(g1) THEN computeAuditFinalForAll(g1) ELSE g1)

allPaid(g) ==
  \A p \in RosterIds(g) : Has(g.settle.entries, p) /\ g.settle.entries[p].paid

audit_pay(gid, pid) ==
  LET g0 == ensureSettlePlayer(game, pid)
      g1 == [g0 EXCEPT !.settle.entries[pid].paid = TRUE]
      e == g0.settle.entries[pid]
  IN IF ~getGame(gid) THEN Reject("audit_pay", pid, "NOT_FOUND", game)
     ELSE IF game.phase # "SETTLE" THEN Reject("audit_pay", pid, "BAD_STATE", game)
     ELSE IF ~e.started THEN Reject("audit_pay", pid, "BAD_STATE", g0)
     ELSE IF g0.settle.stage # "FINAL" THEN Reject("audit_pay", pid, "WAIT", g0)
     ELSE CommitWith("audit_pay", pid,
            [g1 EXCEPT !.settle.stage = IF allPaid(g1) THEN "PAID" ELSE g1.settle.stage],
            TRUE, IF e.finalKnown THEN e.finalUsd ELSE 0)

\* preview_audit that passes no blockedTrendKey to auditPreview
preview_audit_unblocked(gid, pid) ==
  LET g0 == ensureSettlePlayer(game, pid)
  IN IF ~getGame(gid) THEN Reject("preview_audit", pid, "NONE", game)
     ELSE IF ~InRoster(game, pid) THEN Reject("preview_audit", pid, "NONE", game)
     ELSE CommitWith("preview_audit", pid, g0, FALSE, auditPreview(g0, pid, Null).usd)

\* preview_audit that keeps the total in the caller's settlement entry
preview_audit_storing(gid, pid) ==
  LET g0 == ensureSettlePlayer(game, pid)
      usd == auditPreview(g0, pid, BlockedKeyOf(g0.settle.pending[pid])).usd
  IN IF ~getGame(gid) THEN Reject("preview_audit", pid, "NONE", game)
     ELSE IF ~InRoster(game, pid) THEN Reject("preview_audit", pid, "NONE", game)
     ELSE CommitWith("preview_audit", pid,
            [g0 EXCEPT !.settle.entries[pid].finalUsd = usd,
                       !.settle.entries[pid].finalKnown = TRUE], FALSE, usd)

preview_audit(gid, pid) ==
  LET g0 == ensureSettlePlayer(game, pid)
  IN IF ~getGame(gid) THEN Reject("preview_audit", pid, "NONE", game)
     ELSE IF ~InRoster(game, pid) THEN Reject("preview_audit", pid, "NONE", game)
     ELSE CommitWith("preview_audit", pid, g0, FALSE,
            auditPreview(g0, pid, BlockedKeyOf(g0.settle.pending[pid])).usd)



(* ---------------------------------------------------------------------- *)
(* gameView: what broadcast(game) pushes to the socket bound to viewer.    *)
(* Of the fields it returns, those of the aggregate modelled here; all     *)
(* but settle are copied from the aggregate as they are.                   *)
(* ---------------------------------------------------------------------- *)
\* the settlement entries: the viewer's own whole, the others' redacted
settleEntriesView(g, viewer) ==
  [pid \in {q \in RosterIds(g) : Has(g.settle.entries, q)} |->
     IF pid = viewer THEN g.settle.entries[pid]
     ELSE [ started |-> g.settle.entries[pid].started,
            finalUsd |-> 0, finalKnown |-> FALSE, finalBreakdown |-> <<>>,
            paid |-> g.settle.entries[pid].paid ]]

\* gameView with settle copied from the aggregate like the other fields
gameViewWhole(g, viewer) ==
  [ gameId |-> g.gameId,
    status |-> g.status,
    config |-> g.config,
    year |-> g.year,
    phase |-> g.phase,
    bizStep |-> g.bizStep,
    players |-> g.players,
    trends |-> g.trends,
    lawyer |-> g.lawyer,
    inventory |-> g.inventory,
    available |-> g.availableCards,
    biz |-> g.biz,
    crypto |-> g.crypto,
    settle |-> g.settle ]

gameView(g, viewer) ==
  [ gameId |-> g.gameId,
    status |-> g.status,
    config |-> g.config,
    year |-> g.year,
    phase |-> g.phase,
    bizStep |-> g.bizStep,
    players |-> g.players,
    trends |-> g.trends,
    lawyer |-> g.lawyer,
    inventory |-> g.inventory,
    available |-> g.availableCards,
    biz |-> g.biz,
    crypto |-> g.crypto,
    settle |-> [ stage |-> g.settle.stage,
                 entries |-> settleEntriesView(g, viewer),
                 pending |-> Put(EmptyMap, viewer,
                                 IF viewer # NoPid THEN PendingOf(g, viewer)
                                 ELSE [lawyer |-> NoLawyer, lobby |-> <<>>]) ] ]

(* ---------------------------------------------------------------------- *)
(* Events: a handler applied to the payloads a set of clients may send.    *)
(* limit bounds the accepted player events of one run.                     *)
(* ---------------------------------------------------------------------- *)
\* create_game: newGame and the GM bound to the creating socket
Created(names, years, maxPlayers) ==
  /\ \E name \in names, y \in years, mp \in maxPlayers : game = newGame(name, y, mp)
  /\ ack = Ack("create_game", 1, TRUE, "OK", FALSE)
  /\ nEvents = 0

JoinGame(names) == \E name \in names : join_game(GameId, name)
StartGame(callers) ==
  \E pid \in callers : start_game(GameId, pid, FallbackTimeline(game.config.yearsTotal))
GmNext(callers) == \E pid \in callers : gm_next(GameId, pid)
GmBack(callers) == \E pid \in callers : gm_back(GameId, pid)
GmOpenLobbyistWindow(callers) == \E pid \in callers : gm_open_lobbyist_window(GameId, pid)
CommitMlBid(limit, callers, amounts) ==
  nEvents < limit /\ \E pid \in callers, amount \in amounts : commit_ml_bid(GameId, pid, amount)
PickMarket(limit, callers, marketIds) ==
  nEvents < limit /\ \E pid \in callers, m \in marketIds : pick_market(GameId, pid, m)
CommitAuctionBid(limit, callers, amounts, flags) ==
  nEvents < limit /\ \E pid \in callers, bid \in amounts, lob \in flags :
                        commit_auction_bid(GameId, pid, bid, lob)
CommitAuctionFinalBid(limit, callers, amounts) ==
  nEvents < limit /\ \E pid \in callers, bid \in amounts :
                        commit_auction_final_bid(GameId, pid, bid)
CommitAcquire(limit, callers, flags) ==
  nEvents < limit /\ \E pid \in callers, got \in flags : commit_acquire(GameId, pid, got)
CommitCrypto(limit, callers, deltaSets) ==
  nEvents < limit /\ \E pid \in callers, deltas \in deltaSets : commit_crypto(GameId, pid, deltas)
CommitSettlementReady(limit, callers) ==
  nEvents < limit /\ \E pid \in callers : commit_settlement_ready(GameId, pid)
AuditPay(limit, callers) == nEvents < limit /\ \E pid \in callers : audit_pay(GameId, pid)
ClaimCard(limit, callers, cardIds) ==
  nEvents < limit /\ \E pid \in callers, c \in cardIds : claim_card(GameId, pid, c)
ScanCard(limit, callers, cardIds) ==
  nEvents < limit /\ \E pid \in callers, c \in cardIds : scan_card(GameId, pid, c)
DropCard(limit, callers, cardIds) ==
  nEvents < limit /\ \E pid \in callers, c \in cardIds : drop_card(GameId, pid, c)
UseLawyerOnTrend(limit, callers, trendKeys) ==
  nEvents < limit /\ \E pid \in callers, k \in trendKeys : use_lawyer_on_trend(GameId, pid, k)
AuditSetPendingLawyer(limit, callers, lawyers) ==
  nEvents < limit /\ \E pid \in callers, l \in lawyers : audit_set_pending_lawyer(GameId, pid, l)
AuditAddPendingLobby(limit, callers, kinds, targets) ==
  nEvents < limit /\ \E pid \in callers, t \in kinds, target \in targets :
                        audit_add_pending_lobby(GameId, pid, t, target)
AuditRemovePendingLobby(limit, callers, indexes) ==
  nEvents < limit /\ \E pid \in callers, i \in indexes :
                        audit_remove_pending_lobby(GameId, pid, i)

(* ---------------------------------------------------------------------- *)
(* Spec: a whole game, from create_game to GAME_OVER.  Every handler that  *)
(* writes a committed entry is there, with a valid and an invalid payload. *)
(* ---------------------------------------------------------------------- *)
GmNames == {"Ann"}
JoinNames == {"Bob", "ann "}
YearsInputs == {3, 5}
PlayersInputs == 1..MaxRoster
OneAmount == {RawNum(2 * MaxBid + 1), RawNum(-1)}
OneDelta == { [c \in COINS |-> IF c = "BTC" THEN RawNum(3) ELSE RawNull] }

Init == Created(GmNames, YearsInputs, PlayersInputs)

Next ==
  \/ JoinGame(JoinNames)
  \/ StartGame(Callers)
  \/ GmNext(Callers)
  \/ GmBack(Callers)
  \/ GmOpenLobbyistWindow(Callers)
  \/ CommitMlBid(MaxEvents, Callers, OneAmount)
  \/ PickMarket(MaxEvents, Callers, MarketInputs)
  \/ CommitAuctionBid(MaxEvents, Callers, OneAmount, {TRUE})
  \/ CommitAuctionFinalBid(MaxEvents, Callers, OneAmount)
  \/ CommitAcquire(MaxEvents, Callers, {TRUE})
  \/ CommitCrypto(MaxEvents, Callers, OneDelta)
  \/ CommitSettlementReady(MaxEvents, Callers)
  \/ AuditPay(MaxEvents, Callers)

Spec == Init /\ [][Next]_vars

(* ---------------------------------------------------------------------- *)
(* SpecMove: the MOVE step over the years: the GM's transitions and        *)
(* pick_market of every caller for every market.                           *)
(* ---------------------------------------------------------------------- *)
InitMove == Created(GmNames, {4}, PlayersInputs)

NextMove ==
  \/ JoinGame({"Bob"})
  \/ StartGame({1})
  \/ GmNext({1})
  \/ GmBack({1})
  \/ PickMarket(MaxMoves, Callers, MarketInputs)

SpecMove == InitMove /\ [][NextMove]_vars

(* ---------------------------------------------------------------------- *)
(* SpecAuction: the sealed-bid auction: both rounds, the GM's window and   *)
(* the GM's transitions, for every caller.                                 *)
(* ---------------------------------------------------------------------- *)
AuctionAmounts == {RawNull, RawNaN} \cup {RawNum(h) : h \in {1, 2 * MaxBid + 1}}

InitAuction == Created(GmNames, {4}, PlayersInputs)

NextAuction ==
  \/ JoinGame({"Bob"})
  \/ StartGame({1})
  \/ GmNext({1})
  \/ GmBack({1})
  \/ GmOpenLobbyistWindow(Callers)
  \/ CommitAuctionBid(MaxBids, Callers, AuctionAmounts, BOOLEAN)
  \/ CommitAuctionFinalBid(MaxBids, Callers, AuctionAmounts)

SpecAuction == InitAuction /\ [][NextAuction]_vars

(* ---------------------------------------------------------------------- *)
(* SpecSettle: the audit of the last year of a game and the end of the     *)
(* game.  The GM plays the years through; the players send their events in *)
(* the last SETTLE phase and after the game is over.                       *)
(* ---------------------------------------------------------------------- *)
\* the last SETTLE phase, or the game over
InLastAudit ==
  \/ game.status = "GAME_OVER"
  \/ game.phase = "SETTLE" /\ game.year = game.config.yearsTotal

\* the lawyer, the lobbyist and the first investment of the catalog,
\* and an id of no catalog
AuditCards == {<<"EX", 3>>, <<"EX", 5>>, <<"TI", 1>>, UnknownCard}
\* lawyer payloads: null, the shield, a trend no lawyer may block
LawyerInputs ==
  {NoLawyer, LawyerChoice("SHIELD_LOBBY", Null), LawyerChoice("BLOCK_TREND", "ENERGY_CRISIS")}
LobbyKinds == {"steal", "SABOTAGE", "BRIBE"}
IndexInputs == {RawNum(0), RawNum(1)}

InitSettle == Created(GmNames, {4}, {MaxRoster})

NextSettle ==
  \/ JoinGame({"Bob"})
  \/ StartGame({1})
  \/ GmNext({1})
  \/ InLastAudit /\ GmBack({1})
  \/ InLastAudit /\ ClaimCard(MaxAudit, Pids, AuditCards)
  \/ InLastAudit /\ DropCard(MaxAudit, Pids, AuditCards)
  \/ InLastAudit /\ AuditSetPendingLawyer(MaxAudit, Callers, LawyerInputs)
  \/ InLastAudit /\ AuditAddPendingLobby(MaxAudit, Pids, LobbyKinds, Callers)
  \/ InLastAudit /\ AuditRemovePendingLobby(MaxAudit, Pids, IndexInputs)
  \/ InLastAudit /\ CommitSettlementReady(MaxAudit, Callers)
  \/ InLastAudit /\ AuditPay(MaxAudit, Callers)

SpecSettle == InitSettle /\ [][NextSettle]_vars

(* ---------------------------------------------------------------------- *)
(* SpecPower: one player of a two-player game takes and drops experts,     *)
(* chooses a lawyer and an attack, and starts the audit.                   *)
(* ---------------------------------------------------------------------- *)
PowerCards == {<<"EX", 3>>, <<"EX", 5>>}

InitPower == Created(GmNames, {4}, {MaxRoster})

NextPower ==
  \/ JoinGame({"Bob"})
  \/ Len(game.players) = MaxRoster /\ StartGame({1})
  \/ GmNext({1})
  \/ InLastAudit /\ ClaimCard(MaxPower, {1}, PowerCards)
  \/ InLastAudit /\ DropCard(MaxPower, {1}, PowerCards)
  \/ InLastAudit /\ AuditSetPendingLawyer(MaxPower, {1}, {LawyerChoice("SHIELD_LOBBY", Null)})
  \/ InLastAudit /\ AuditAddPendingLobby(MaxPower, {1}, {"STEAL"}, {2})
  \/ InLastAudit /\ CommitSettlementReady(MaxPower, {1})

SpecPower == InitPower /\ [][NextPower]_vars

\* the same audit kept going by the GM's client, which sends gm_next for ever
\* (the handler is always enabled for the GM)
SpecPowerFair == InitPower /\ [][NextPower]_vars /\ WF_vars(GmNext({1}))

(* The final computation: the audit of the first year of a two-player game, *)
(* entered with the cards the players hold and the choices they have        *)
(* pending; the players then start and pay in any order.                    *)
\* create_game, join_game, start_game and gm_next up to the SETTLE phase
AuditBase ==
  LET g0 == newGame("Ann", 4, MaxRoster)
      g1 == [g0 EXCEPT !.players = Append(@, makePlayer(2, "Bob", "PLAYER", nextFreeSeatIndex(g0))),
                       !.inventory = Put(@, 2, blankInventory)]
      g2 == startNewYear([g1 EXCEPT !.status = "IN_PROGRESS",
                                    !.trends = FallbackTimeline(g1.config.yearsTotal),
                                    !.year = 0])
  IN gmNext(gmNext(gmNext(gmNext(gmNext(g2)))))

\* the two players of the audit
AuditPids == RosterIds(AuditBase)

\* the sequences over S of length at most n
SeqsUpTo(S, n) == UNION {[1..k -> S] : k \in 0..n}

\* who holds each investment card (0: nobody), who holds the mining farm
InvestmentOwners == [1..MaxInvestments -> {0} \cup AuditPids]
FarmOwners == {0, 1}
\* the pending choices: a shield or no lawyer, attacks on the other player
ShieldInputs == [AuditPids -> {NoLawyer, LawyerChoice("SHIELD_LOBBY", Null)}]
LobbyInputs ==
  {l \in [AuditPids -> SeqsUpTo({"STEAL", "SABOTAGE"}, MaxAttacks)] :
     Len(l[1]) + Len(l[2]) <= MaxAttacks}

\* the cards of pid after claim_card: its investments, the farm, a lawyer
\* (EX003, EX008) when it shields, one lobbyist (EX005, EX010, ...) per attack
HeldCards(pid, owners, farmOwner, shields, lobbies) ==
  LET first == IF pid = 1 THEN 0 ELSE Len(lobbies[1])
  IN [ investments |-> [k \in 1..Cardinality({n \in 1..MaxInvestments : owners[n] = pid}) |->
                          InvestmentCard(CHOOSE n \in 1..MaxInvestments :
                            /\ owners[n] = pid
                            /\ Cardinality({m \in 1..n : owners[m] = pid}) = k)],
       miningFarms |-> IF farmOwner = pid THEN <<FarmCard(1)>> ELSE <<>>,
       experts |-> (IF shields[pid] # NoLawyer THEN <<ExpertCard(5 * pid - 2)>> ELSE <<>>)
                   \o [k \in 1..Len(lobbies[pid]) |-> ExpertCard(5 * (first + k))] ]

\* the audit with the cards claimed and the choices pending, nobody started
AuditWith(owners, farmOwner, shields, lobbies) ==
  LET g == EnsureAll(AuditBase, 1)
      other(pid) == 3 - pid
  IN [g EXCEPT
        !.inventory = [pid \in AuditPids |-> HeldCards(pid, owners, farmOwner, shields, lobbies)],
        !.availableCards.investments = {<<"TI", n>> : n \in {m \in 1..MaxInvestments : owners[m] = 0}},
        !.availableCards.miningFarms = @ \ (IF farmOwner = 0 THEN {} ELSE {<<"MF", 1>>}),
        !.availableCards.experts =
           @ \ UNION {{e.cardId : e \in {HeldCards(pid, owners, farmOwner, shields, lobbies).experts[k] :
                         k \in 1..Len(HeldCards(pid, owners, farmOwner, shields, lobbies).experts)}} :
                      pid \in AuditPids},
        !.settle.pending = [pid \in AuditPids |->
           [lawyer |-> shields[pid],
            lobby |-> [k \in 1..Len(lobbies[pid]) |->
                         [type |-> lobbies[pid][k], targetPid |-> other(pid)]]]]]

InitFinal ==
  /\ \E owners \in InvestmentOwners, farmOwner \in FarmOwners,
        shields \in ShieldInputs, lobbies \in LobbyInputs :
       game = AuditWith(owners, farmOwner, shields, lobbies)
  /\ ack = Ack("gm_next", 1, TRUE, "OK", TRUE)
  /\ nEvents = 0

NextFinal ==
  \/ CommitSettlementReady(MaxFinal, AuditPids)
  \/ AuditPay(MaxFinal, AuditPids)

SpecFinal == InitFinal /\ [][NextFinal]_vars

(* The audit preview: the first year of a two-player game whose timeline    *)
(* holds the trends the preview reads, player 1 holding investment cards   *)
(* of one continent (TI001, TI007, ...), of another (TI002, ...), a farm    *)
(* and a lawyer; the GM advances to the audit and the players preview.      *)
\* the trends of data/globalTrends.json that auditPreview names
AuditTrendKeys ==
  {"ANTIMONOPOLY_NO_BONUSES", "ECONOMIC_CRISIS_NO_TRAD_BASE", "TRAD_INV_DOUBLE_USD",
   "LOWER_DIFFICULTY", "EXPENSIVE_ELECTRICITY"}
\* pickRandom(CATALOG.globalTrends, 3): at most three of them in a year
GlobalsInputs ==
  {{Trend(k, TRUE, "AUDIT_ANYTIME_BEFORE_CLOSE") : k \in ks} :
     ks \in {x \in SUBSET AuditTrendKeys : Cardinality(x) <= 3}}

\* create_game, join_game and start_game with the timeline drawn
StartedWith(globals) ==
  LET g0 == newGame("Ann", 4, MaxRoster)
      g1 == [g0 EXCEPT !.players = Append(@, makePlayer(2, "Bob", "PLAYER", nextFreeSeatIndex(g0))),
                       !.inventory = Put(@, 2, blankInventory)]
  IN startNewYear([g1 EXCEPT !.status = "IN_PROGRESS",
                             !.trends = generateTrends(g1.config.yearsTotal,
                                          [y \in 1..g1.config.yearsTotal |-> globals],
                                          [y \in 1..g1.config.yearsTotal |-> FallbackCoeff]),
                             !.year = 0])

\* the cards of EUROPE (and AGRO) in the order player 1 claims them
EuropeCards == <<1, 31, 7, 13, 19, 25, 37, 43>>

\* player 1 after claim_card of k cards of TI001, TI031, TI007, ..., of j cards
\* of TI002, TI008, ..., of f farms and of the lawyer EX003
PreviewCards(k, j, f) ==
  [ investments |-> [i \in 1..k |-> InvestmentCard(EuropeCards[i])]
                    \o [i \in 1..j |-> InvestmentCard(6 * i - 4)],
    miningFarms |-> [i \in 1..f |-> FarmCard(i)],
    experts |-> <<ExpertCard(3)>> ]

PreviewGame(globals, k, j, f) ==
  LET g == StartedWith(globals)
      inv == PreviewCards(k, j, f)
  IN [g EXCEPT
        !.inventory[1] = inv,
        !.availableCards.investments = @ \ {inv.investments[i].cardId : i \in 1..Len(inv.investments)},
        !.availableCards.miningFarms = @ \ {inv.miningFarms[i].cardId : i \in 1..Len(inv.miningFarms)},
        !.availableCards.experts = @ \ {<<"EX", 3>>}]

BlockInputs == {NoLawyer} \cup {LawyerChoice("BLOCK_TREND", k) : k \in AuditTrendKeys}

PreviewAudit(limit, callers) ==
  nEvents < limit /\ \E pid \in callers : preview_audit(GameId, pid)

InitPreview ==
  /\ \E globals \in GlobalsInputs, k \in 0..MaxGroup, j \in 0..MaxOther, f \in 0..MaxFarms :
       game = PreviewGame(globals, k, j, f)
  /\ ack = Ack("claim_card", 1, TRUE, "OK", TRUE)
  /\ nEvents = 0

NextPreview ==
  \/ game.phase # "SETTLE" /\ GmNext({1})
  \/ PreviewAudit(MaxPreview, Callers)
  \/ AuditSetPendingLawyer(MaxPreview, {1}, BlockInputs)

SpecPreview == InitPreview /\ [][NextPreview]_vars

(* The lawyer: a timeline with the same global trends in every year, each   *)
(* with the window its data gives it, and lawyers in both inventories.      *)
WindowTrends ==
  { Trend("EXCHANGE_HACK", TRUE, "BIZ_TRENDS_ONLY"),
    Trend("EXCHANGE_HACK", TRUE, "AUDIT_ANYTIME_BEFORE_CLOSE"),
    Trend("HYPERINFLATION_USD_HALVE", TRUE, "BIZ_MOVE_ONLY"),
    Trend("ENERGY_CRISIS", FALSE, Null) }
WindowInputs ==
  {ts \in SUBSET WindowTrends :
     ts # {} /\ \A a, b \in ts : a.key = b.key => a = b}
TrendKeyInputs == {"EXCHANGE_HACK", "HYPERINFLATION_USD_HALVE", "ENERGY_CRISIS"}

\* player 1 after claim_card of k lawyers (EX003, EX008, ...), player 2 of one
LawyerGame(globals, k) ==
  LET g == StartedWith(globals)
      held == {<<"EX", 5 * i - 2>> : i \in 1..(k + 1)}
  IN [g EXCEPT
        !.inventory = [pid \in DOMAIN g.inventory |->
                         [blankInventory EXCEPT
                            !.experts = IF pid = 1 THEN [i \in 1..k |-> ExpertCard(5 * i - 2)]
                                        ELSE <<ExpertCard(5 * k + 3)>>]],
        !.availableCards.experts = @ \ held]

InitLawyer ==
  /\ \E globals \in WindowInputs, k \in 0..MaxLawyers : game = LawyerGame(globals, k)
  /\ ack = Ack("claim_card", 2, TRUE, "OK", TRUE)
  /\ nEvents = 0

NextLawyer ==
  \/ GmNext({1})
  \/ GmBack({1})
  \/ UseLawyerOnTrend(MaxLawyerUses, {NoPid} \cup RosterIds(game), TrendKeyInputs)

SpecLawyer == InitLawyer /\ [][NextLawyer]_vars

(* ---------------------------------------------------------------------- *)
(* The legacy v4 protocol server (src/unnamed/part_000).  Its game is a    *)
(* record of its own: status lobby/running, year, phase of V4_PHASES, the  *)
(* active trend ids, gmId, marketPick.occupiedBy, the audit, and players   *)
(* with their market, crypto, cards, expertUsage (pairs card, ability) and *)
(* per-year protections.  pushed is emitState(game): a state_sync to every *)
(* player's socket.                                                        *)
(* ---------------------------------------------------------------------- *)
V4_PHASES == <<"ML", "MARKET_PICK", "AUCTION", "ACQUIRE", "EXCHANGE", "AUDIT">>

\* data/globalTrends.json as the code reads it: id, trigger, effectType,
\* params, lawyer {canCounter, allowedPhases, counterMode}
V4_TREND_DEFS ==
  { [id |-> 1, trigger |-> "ON_LEAVE_ML", effectType |-> "CRYPTO_MUTATION",
     params |-> "allCoinsHalveFloor",
     lawyer |-> [canCounter |-> TRUE, allowedPhases |-> {"ML"}, counterMode |-> "COUNTER"]],
    [id |-> 2, trigger |-> "ON_ENTER_ML", effectType |-> "CRYPTO_MUTATION",
     params |-> "multiplyCoins",
     lawyer |-> [canCounter |-> FALSE, allowedPhases |-> {}, counterMode |-> Null]],
    [id |-> 3, trigger |-> Null, effectType |-> "INFO", params |-> Null,
     lawyer |-> [canCounter |-> TRUE, allowedPhases |-> {"AUDIT"},
                 counterMode |-> "PROOF_BADGE"]] }
\* the multiplyCoins of the fork: BTC and ETH doubled
V4ForkMult == [c \in COINS |-> IF c \in {"BTC", "ETH"} THEN 2 ELSE 1]

\* TREND_DEFS.find(t => t.id === id), as a set: empty when undefined
v4_trendById(id) == {t \in V4_TREND_DEFS : t.id = id}

v4_makePlayer(playerId, name, role) ==
  [ playerId |-> playerId, name |-> name, role |-> role,
    marketId |-> Null,
    crypto |-> [c \in COINS |-> 0],
    investments |-> <<>>, miningFarms |-> <<>>,
    experts |-> <<>>, expertUsage |-> {},
    trendCounters |-> {}, proofBadges |-> {}, lobbyistShields |-> 0 ]

v4_initGame(yearsTotal, maxPlayers, trendsActive) ==
  [ gameId |-> GameId, status |-> "lobby",
    config |-> [yearsTotal |-> clampYears(yearsTotal), maxPlayers |-> clampPlayers(maxPlayers)],
    year |-> 1, phase |-> "ML", trendsActive |-> trendsActive,
    players |-> <<>>, gmId |-> Null, readiness |-> {},
    marketPick |-> [occupiedBy |-> <<>>],
    audit |-> [started |-> {}, confirmed |-> {}, lobbyistActions |-> <<>>, final |-> <<>>] ]

v4_isGM(g, playerId) == g.gmId = playerId

v4_applyCryptoMutation(player, params) ==
  IF params = "allCoinsHalveFloor"
    THEN [player EXCEPT !.crypto = [c \in COINS |-> player.crypto[c] \div 2]]
  ELSE IF params = "multiplyCoins"
    THEN [player EXCEPT !.crypto = [c \in COINS |-> player.crypto[c] * V4ForkMult[c]]]
  ELSE player

RECURSIVE v4_applyTrends(_, _, _)
\* applyTrends(game, triggerPoint) from the k-th active trend on
v4_applyTrends(g, triggerPoint, k) ==
  IF k > Len(g.trendsActive) THEN g
  ELSE LET tid == g.trendsActive[k]
           ts == v4_trendById(tid)
           t == CHOOSE x \in ts : TRUE
           hit == ts # {} /\ t.trigger = triggerPoint /\ t.effectType = "CRYPTO_MUTATION"
           g2 == IF hit
                 THEN [g EXCEPT !.players =
                         [i \in 1..Len(g.players) |->
                            IF tid \in g.players[i].trendCounters THEN g.players[i]
                            ELSE v4_applyCryptoMutation(g.players[i], t.params)]]
                 ELSE g
       IN v4_applyTrends(g2, triggerPoint, k + 1)

v4_hasExpertAbility(player, abilityKey) ==
  IF Len(player.experts) = 0 THEN FALSE
  ELSE abilityKey \in {"LAWYER", "LOBBYIST_INTEL", "LOBBYIST_STEAL", "LOBBYIST_SABOTAGE"}

\* index of the first expert card not yet used for abilityKey, 0 if none (null)
v4_consumeExpertAbility(player, abilityKey) ==
  LET free == {i \in 1..Len(player.experts) :
                 <<player.experts[i], abilityKey>> \notin player.expertUsage}
  IN IF free = {} THEN 0 ELSE CHOOSE i \in free : \A j \in free : i <= j

\* lawyerCounterTrend: the result's ok and error, and the player after it
v4_lawyerCounterTrend(g, player, trendId, phase) ==
  LET ts == v4_trendById(trendId)
      t == CHOOSE x \in ts : TRUE
      i == v4_consumeExpertAbility(player, "LAWYER")
      used == [player EXCEPT !.expertUsage = @ \cup {<<player.experts[i], "LAWYER">>}]
  IN IF ts = {} \/ ~t.lawyer.canCounter
       THEN [ok |-> FALSE, error |-> "Nelze pouzit pravnika.", player |-> player]
     ELSE IF phase \notin t.lawyer.allowedPhases
       THEN [ok |-> FALSE, error |-> "Pravnik nelze pouzit v teto fazi.", player |-> player]
     ELSE IF ~v4_hasExpertAbility(player, "LAWYER")
       THEN [ok |-> FALSE, error |-> "Nemas pravnika.", player |-> player]
     ELSE IF i = 0
       THEN [ok |-> FALSE, error |-> "Pravnik uz byl pouzit.", player |-> player]
     ELSE IF t.lawyer.counterMode = "PROOF_BADGE"
       THEN [ok |-> TRUE, error |-> "OK",
             player |-> [used EXCEPT !.proofBadges = @ \cup {trendId}]]
     ELSE [ok |-> TRUE, error |-> "OK",
           player |-> [used EXCEPT !.trendCounters = @ \cup {trendId}]]

v4_join_game(gid, name) ==
  IF ~getGame(gid) THEN Reject("join_game", NoPid, "Hra nenalezena", game)
  ELSE IF Len(game.players) >= game.config.maxPlayers
    THEN Reject("join_game", NoPid, "Hra je plna", game)
  ELSE Accept("join_game", NoPid,
         [game EXCEPT !.players =
            Append(@, v4_makePlayer(Len(game.players) + 1, name, "PLAYER"))])

\* link is socketToPlayer.get(socket.id)?.playerId: NoPid for an unbound socket
v4_start_game(gid, link) ==
  IF ~getGame(gid) THEN Reject("start_game", link, "Hra nenalezena", game)
  ELSE LET pid == IF link # NoPid THEN link ELSE game.gmId
       IN IF ~v4_isGM(game, pid) THEN Reject("start_game", link, "Jen GM", game)
          ELSE Accept("start_game", link,
                 v4_applyTrends([game EXCEPT !.status = "running"], "ON_ENTER_ML", 1))

v4_gm_advance_phase(gid, playerId, toPhase) ==
  IF ~getGame(gid) THEN Reject("gm_advance_phase", playerId, "Hra nenalezena", game)
  ELSE IF ~v4_isGM(game, playerId) THEN Reject("gm_advance_phase", playerId, "Jen GM", game)
  ELSE LET currentIdx == CHOOSE i \in 1..Len(V4_PHASES) : V4_PHASES[i] = game.phase
           next == IF \E i \in 1..Len(V4_PHASES) : V4_PHASES[i] = toPhase THEN toPhase
                   ELSE V4_PHASES[Min(currentIdx + 1, Len(V4_PHASES))]
           g1 == IF game.phase = "ML" /\ next = "MARKET_PICK"
                 THEN v4_applyTrends(game, "ON_LEAVE_ML", 1) ELSE game
           g2 == IF next = "ML" THEN v4_applyTrends(g1, "ON_ENTER_ML", 1) ELSE g1
       IN Accept("gm_advance_phase", playerId, [g2 EXCEPT !.phase = next, !.readiness = {}])

\* emitState(game) runs before cb(res), whatever res.ok is
v4_lawyer_counter_trend(gid, playerId, trendId) ==
  IF ~getGame(gid) THEN Reject("lawyer_counter_trend", playerId, "Hra nenalezena", game)
  ELSE IF ~InRoster(game, playerId)
    THEN Reject("lawyer_counter_trend", playerId, "Hrac nenalezen", game)
  ELSE LET i == PlayerIndex(game, playerId)
           res == v4_lawyerCounterTrend(game, game.players[i], trendId, game.phase)
       IN /\ game' = [game EXCEPT !.players[i] = res.player]
          /\ ack' = Ack("lawyer_counter_trend", playerId, res.ok, res.error, TRUE)
          /\ nEvents' = IF res.ok THEN nEvents + 1 ELSE nEvents

v4_lawyer_activate_preventive(gid, playerId) ==
  IF ~getGame(gid) \/ game.phase # "AUDIT"
    THEN Reject("lawyer_activate_preventive", playerId, "Nejsi v Auditu", game)
  ELSE IF ~InRoster(game, playerId)
    THEN Reject("lawyer_activate_preventive", playerId, "Hrac nenalezen", game)
  ELSE LET i == PlayerIndex(game, playerId)
           p == game.players[i]
           k == v4_consumeExpertAbility(p, "LAWYER")
       IN IF ~v4_hasExpertAbility(p, "LAWYER")
            THEN Reject("lawyer_activate_preventive", playerId, "Nemas pravnika", game)
          ELSE IF k = 0
            THEN Reject("lawyer_activate_preventive", playerId, "Pravnik uz byl pouzit", game)
          ELSE Commit("lawyer_activate_preventive", playerId,
                 [game EXCEPT !.players[i] =
                    [p EXCEPT !.expertUsage = @ \cup {<<p.experts[k], "LAWYER">>},
                              !.lobbyistShields = @ + 1]])

\* CATALOG.markets of buildCatalog: three markets per continent of
\* CONTINENT_ORDER, M01..M18; the continent of a marketId, Null for no market
V4_CONTINENT_ORDER == <<"S_AMERICA", "N_AMERICA", "EUROPE", "AFRICA", "ASIA", "OCEANIA">>
V4_MARKETS ==
  { [marketId |-> (IF idx < 10 THEN "M0" ELSE "M1") \o
                  <<"0", "1", "2", "3", "4", "5", "6", "7", "8", "9">>[(idx % 10) + 1],
     continent |-> V4_CONTINENT_ORDER[((idx - 1) \div 3) + 1]] : idx \in 1..18 }
v4_continentOf(marketId) ==
  IF \E m \in V4_MARKETS : m.marketId = marketId
    THEN (CHOOSE m \in V4_MARKETS : m.marketId = marketId).continent
    ELSE Null

\* the marketIds of marketOptionsFor(game, player): free or the player's own,
\* and on the player's continent while the pandemic (trend 15) is active
\* and not countered
v4_marketOptionsFor(g, player) ==
  LET occupied == g.marketPick.occupiedBy
      myCurrent == player.marketId
      pandemicActive == \E k \in 1..Len(g.trendsActive) : g.trendsActive[k] = 15
      hasException == 15 \in player.trendCounters
      myContinent == v4_continentOf(myCurrent)
  IN { m.marketId : m \in
         { m \in V4_MARKETS :
             /\ ~Has(occupied, m.marketId) \/ (myCurrent # Null /\ m.marketId = myCurrent)
             /\ (pandemicActive /\ ~hasException /\ myContinent # Null)
                  => m.continent = myContinent } }

\* p.phaseLocal is private input of the client and is not part of the model
v4_market_pick_commit(gid, playerId, marketId) ==
  IF ~getGame(gid) \/ game.phase # "MARKET_PICK"
    THEN Reject("market_pick_commit", playerId, "Nejsi ve fazi Vyber trhu", game)
  ELSE IF ~InRoster(game, playerId)
    THEN Reject("market_pick_commit", playerId, "Hrac nenalezen", game)
  ELSE LET i == PlayerIndex(game, playerId)
       IN IF marketId \notin v4_marketOptionsFor(game, game.players[i])
            THEN Reject("market_pick_commit", playerId, "Trh neni dostupny", game)
          ELSE Commit("market_pick_commit", playerId,
                 [game EXCEPT !.marketPick.occupiedBy = Put(@, marketId, playerId),
                              !.players[i].marketId = marketId,
                              !.readiness = @ \cup {playerId}])

\* resetPerYear(player)
v4_resetPerYear(player) ==
  [player EXCEPT !.trendCounters = {}, !.proofBadges = {}, !.lobbyistShields = 0]

\* startNewYear(game); picked is pickRandom(TREND_DEFS.map(t => t.id), 2).
\* The auction, acquire and exchange states it resets are not in the model;
\* marketPick and the players' marketId are not touched by the code
v4_startNewYear(g, picked) ==
  LET g1 == [g EXCEPT !.year = @ + 1]
  IN IF g1.year > g1.config.yearsTotal THEN [g1 EXCEPT !.status = "ended"]
     ELSE v4_applyTrends(
            [g1 EXCEPT !.trendsActive = picked, !.phase = "ML", !.readiness = {},
                       !.audit = [started |-> {}, confirmed |-> {},
                                  lobbyistActions |-> <<>>, final |-> <<>>],
                       !.players = [i \in 1..Len(g1.players) |-> v4_resetPerYear(g1.players[i])]],
            "ON_ENTER_ML", 1)

v4_gm_next_year(gid, playerId, picked) ==
  IF ~getGame(gid) THEN Reject("gm_next_year", playerId, "Hra nenalezena", game)
  ELSE IF ~v4_isGM(game, playerId) THEN Reject("gm_next_year", playerId, "Jen GM", game)
  ELSE Accept("gm_next_year", playerId, v4_startNewYear(game, picked))

\* buildCatalog: baseProduction and type of the investment TI00n, the
\* electricityCost of the mining farm MF00n; baseCostByYear
V4_TYPES == <<"AGRO", "INDUSTRY", "MINING">>
v4_baseProduction(card) == 10000 + ((card[2] - 1) % 6) * 2000
v4_typeOf(card) == V4_TYPES[((card[2] - 1) % 3) + 1]
v4_electricityCost(card) == 4000 + ((card[2] - 1) % 4) * 1000
baseCostByYear(y) == IF y \in 1..5 THEN 5000 * y ELSE 20000

\* setBonus(count) of computeAuditPreview
v4_setBonus(count) ==
  IF count >= 6 THEN 50000 ELSE IF count >= 4 THEN 25000 ELSE IF count >= 2 THEN 10000 ELSE 0

\* computeAuditPreview(game, player): the rows by key, and their total.  No
\* trend of V4_TREND_DEFS is an AUDIT_MOD, so every multiplier is 1.
v4_computeAuditPreview(g, player) ==
  LET inv == player.investments
      tradBase == SumOver(DOMAIN inv, [k \in DOMAIN inv |-> v4_baseProduction(inv[k])])
      contMax == Len(inv)
      typeCount(ty) == Cardinality({k \in DOMAIN inv : v4_typeOf(inv[k]) = ty})
      typeMax == Max(typeCount("AGRO"), Max(typeCount("INDUSTRY"), typeCount("MINING")))
      farms == player.miningFarms
      electricity == SumOver(DOMAIN farms, [k \in DOMAIN farms |-> v4_electricityCost(farms[k])])
      myCont == v4_continentOf(player.marketId)
      others == {k \in 1..Len(g.players) :
                   /\ g.players[k].playerId # player.playerId
                   /\ myCont # Null
                   /\ v4_continentOf(g.players[k].marketId) = myCont}
      foreignInvestCount == SumOver(others, [k \in others |-> Len(g.players[k].investments)])
      rows == [TRAD |-> tradBase, SET |-> v4_setBonus(contMax) + v4_setBonus(typeMax),
               ELEC |-> 0 - electricity, LOBBY |-> 0, TRENDS |-> 0,
               INFRA |-> 0 - foreignInvestCount * baseCostByYear(g.year)]
  IN [rows |-> rows,
      total |-> rows.TRAD + rows.SET + rows.ELEC + rows.LOBBY + rows.TRENDS + rows.INFRA]

\* resolveAuditFinal(game): sorted.slice(0, shields) blocks, for every
\* target, as many of the most negative acts as the target has shields
v4_resolveAuditFinal(g) ==
  LET pids == RosterIds(g)
      base == [p \in pids |-> v4_computeAuditPreview(g, getPlayer(g, p))]
      productionOnly == [p \in pids |-> Max(0, base[p].rows.TRAD + base[p].rows.SET)]
      acts == g.audit.lobbyistActions
      live == {i \in 1..Len(acts) : acts[i].target \in pids}
      maxBase(t) == LET inv == getPlayer(g, t).investments
                        S == {v4_baseProduction(inv[k]) : k \in DOMAIN inv} \cup {0}
                    IN CHOOSE m \in S : \A x \in S : m >= x
      targetDelta(i) == IF acts[i].type = "STEAL" THEN 0 - maxBase(acts[i].target)
                        ELSE IF acts[i].type = "SABOTAGE"
                          THEN 0 - (productionOnly[acts[i].target] \div 2)
                        ELSE 0
      byDelta(i) == IF acts[i].type = "STEAL" THEN maxBase(acts[i].target) ELSE 0
      \* the place of act i in the sort of its target's acts, most negative first
      rank(i) == Cardinality({j \in live :
                    /\ acts[j].target = acts[i].target
                    /\ \/ targetDelta(j) < targetDelta(i)
                       \/ targetDelta(j) = targetDelta(i) /\ j <= i})
      applied == {i \in live : rank(i) > getPlayer(g, acts[i].target).lobbyistShields}
      impacts == [p \in pids |->
                    SumOver(applied, [i \in applied |->
                       (IF acts[i].target = p THEN targetDelta(i) ELSE 0)
                       + (IF acts[i].by = p THEN byDelta(i) ELSE 0)])]
  IN [g EXCEPT !.audit.final =
        [p \in pids |->
           [rows |-> [base[p].rows EXCEPT !.LOBBY = impacts[p]],
            total |-> base[p].total + impacts[p]]]]

\* the handler has no emitState
v4_lobbyist_action_select(gid, playerId, action, targetPlayerId) ==
  IF ~getGame(gid) \/ game.phase # "AUDIT"
    THEN Reject("lobbyist_action_select", playerId, "Nejsi ve fazi Audit", game)
  ELSE IF ~InRoster(game, playerId)
    THEN Reject("lobbyist_action_select", playerId, "Hrac nenalezen", game)
  ELSE IF playerId \in game.audit.started
    THEN Reject("lobbyist_action_select", playerId, "Audit uz zahajen", game)
  ELSE IF playerId = targetPlayerId
    THEN Reject("lobbyist_action_select", playerId, "Nelze na sebe", game)
  ELSE LET i == PlayerIndex(game, playerId)
           p == game.players[i]
           abilityKey == IF action = "STEAL" THEN "LOBBYIST_STEAL" ELSE "LOBBYIST_SABOTAGE"
           k == v4_consumeExpertAbility(p, abilityKey)
       IN IF ~v4_hasExpertAbility(p, abilityKey)
            THEN Reject("lobbyist_action_select", playerId, "Nemas lobbistu", game)
          ELSE IF k = 0
            THEN Reject("lobbyist_action_select", playerId, "Funkce uz byla pouzita", game)
          ELSE CommitWith("lobbyist_action_select", playerId,
                 [game EXCEPT !.players[i].expertUsage = @ \cup {<<p.experts[k], abilityKey>>},
                              !.audit.lobbyistActions =
                                 Append(@, [by |-> playerId, type |-> action,
                                            target |-> targetPlayerId])],
                 FALSE, 0)

v4_audit_start(gid, playerId) ==
  IF ~getGame(gid) \/ game.phase # "AUDIT"
    THEN Reject("audit_start", playerId, "Nejsi ve fazi Audit", game)
  ELSE IF playerId \in game.audit.started
    THEN Reject("audit_start", playerId, "Uz zahajeno", game)
  ELSE LET g1 == [game EXCEPT !.audit.started = @ \cup {playerId},
                              !.readiness = @ \cup {playerId}]
       IN Commit("audit_start", playerId,
            IF Cardinality(g1.audit.started) = Len(g1.players)
              THEN v4_resolveAuditFinal(g1) ELSE g1)

(* SpecLegacy: a game of the legacy server after create_game, with the     *)
(* experts the GM has claimed (scan_claim in ACQUIRE, back to ML).          *)
V4TrendInputs == {<<1, 2>>, <<2, 3>>, <<3, 1>>}
V4TrendIds == {1, 2, 3, 9}
V4PhaseInputs == {Null, "ML", "AUDIT"}

\* create_game by Ann, who then holds the experts EX001..EX00k
LegacyGame(trendsActive, maxPlayers, k) ==
  LET g == v4_initGame(4, maxPlayers, trendsActive)
      gm == [v4_makePlayer(1, "Ann", "gm") EXCEPT !.experts = [i \in 1..k |-> <<"EX", i>>]]
  IN [g EXCEPT !.players = <<gm>>, !.gmId = 1]

InitLegacy ==
  /\ \E tr \in V4TrendInputs, k \in 0..MaxLegacyExperts : game = LegacyGame(tr, MaxRoster, k)
  /\ ack = Ack("create_game", 1, TRUE, "OK", TRUE)
  /\ nEvents = 0

NextLegacy ==
  \/ v4_join_game(GameId, "Bob")
  \/ \E link \in Callers : v4_start_game(GameId, link)
  \/ \E pid \in Callers, toPhase \in V4PhaseInputs : v4_gm_advance_phase(GameId, pid, toPhase)
  \/ nEvents < MaxLegacyEvents
       /\ \E pid \in Callers, tid \in V4TrendIds : v4_lawyer_counter_trend(GameId, pid, tid)
  \/ nEvents < MaxLegacyEvents
       /\ \E pid \in Callers : v4_lawyer_activate_preventive(GameId, pid)

SpecLegacy == InitLegacy /\ [][NextLegacy]_vars

(* SpecPick: the market pick of the legacy server: the players join, the   *)
(* GM moves the phase on and starts the next year, every caller picks.     *)
V4MarketInputs == {"M01", "M02", "M04", "M99"}
V4PickTrends == {<<1, 2>>, <<15, 1>>}

InitPick ==
  /\ \E tr \in V4PickTrends : game = LegacyGame(tr, MaxRoster, 0)
  /\ ack = Ack("create_game", 1, TRUE, "OK", TRUE)
  /\ nEvents = 0

NextPick ==
  \/ v4_join_game(GameId, "Bob")
  \/ \E pid \in Callers : v4_gm_advance_phase(GameId, pid, Null)
  \/ game.year < MaxLegacyYears
       /\ \E pid \in Callers, tr \in V4PickTrends : v4_gm_next_year(GameId, pid, tr)
  \/ nEvents < MaxPicks
       /\ \E pid \in Callers, m \in V4MarketInputs : v4_market_pick_commit(GameId, pid, m)

SpecPick == InitPick /\ [][NextPick]_vars

(* SpecShield: the audit of the legacy server with two players who hold    *)
(* the investments and experts they have claimed (scan_claim): the GM      *)
(* raises shields, Bob attacks, and every caller starts the audit.          *)
V4Holdings == {<<>>, <<1>>, <<1, 2>>}
V4Actions == {"STEAL", "SABOTAGE"}

\* Ann (GM) and Bob; Ann holds the investments TI00n of inv and the experts
\* EX001..EX00k, Bob the investment TI003 and the experts EX011..EX01j
ShieldGame(inv, k, j) ==
  LET g == LegacyGame(<<1, 2>>, MaxRoster, k)
      ann == [g.players[1] EXCEPT !.investments = [n \in DOMAIN inv |-> <<"TI", inv[n]>>]]
      bob == [v4_makePlayer(2, "Bob", "PLAYER") EXCEPT
                !.investments = <<<<"TI", 3>>>>,
                !.experts = [n \in 1..j |-> <<"EX", 10 + n>>]]
  IN [g EXCEPT !.players = <<ann, bob>>, !.status = "running", !.phase = "EXCHANGE"]

InitShield ==
  /\ \E inv \in V4Holdings, k \in 0..MaxLegacyExperts, j \in 0..MaxLegacyExperts :
       game = ShieldGame(inv, k, j)
  /\ ack = Ack("exchange_commit", 2, TRUE, "OK", TRUE)
  /\ nEvents = 0

NextShield ==
  \/ v4_gm_advance_phase(GameId, 1, Null)
  \/ nEvents < MaxShieldEvents /\ v4_lawyer_activate_preventive(GameId, 1)
  \/ nEvents < MaxShieldEvents
       /\ \E action \in V4Actions, target \in Callers :
            v4_lobbyist_action_select(GameId, 2, action, target)
  \/ nEvents < MaxShieldEvents
       /\ \E pid \in Callers : v4_audit_start(GameId, pid)

SpecShield == InitShield /\ [][NextShield]_vars

(* The lobby: create_game for 1..MaxLobby players, join_game with names    *)
(* that are new, blank, or equal to a present one but for case and spaces,  *)
(* then the started game to its end.                                        *)
LobbyNames == {"Bob", "bob ", "Cy", "ann ", " "}

InitLobby == Created(GmNames, {4}, 1..MaxLobby)

NextLobby ==
  \/ JoinGame(LobbyNames)
  \/ StartGame({NoPid, 1, 2})
  \/ GmNext({1})

SpecLobby == InitLobby /\ [][NextLobby]_vars

(* The GM drives the session: gm_next and gm_back by the GM and by others,  *)
(* with commitments of the players in between.  The GM's client keeps       *)
(* sending gm_next: the handler has no guard but isGM, hence weak fairness  *)
(* of the GM's gm_next.                                                     *)
InitOver == Created(GmNames, YearsInputs, {MaxRoster})

NextOver ==
  \/ JoinGame({"Bob"})
  \/ StartGame(Callers)
  \/ GmNext(Callers)
  \/ GmBack(Callers)
  \/ CommitMlBid(MaxEvents, Callers, OneAmount)
  \/ CommitCrypto(MaxEvents, Callers, OneDelta)
  \/ CommitSettlementReady(MaxEvents, Callers)

SpecOver == InitOver /\ [][NextOver]_vars /\ WF_vars(GmNext({1}))

(* The card pool: cards claimed, scanned and dropped by the players and by  *)
(* a socket with no player id, from the lobby on.                           *)
CardInputs == {<<"TI", 1>>, <<"MF", 1>>, <<"EX", 1>>, NoCard, UnknownCard}

\* a playerId is a fresh shortId(): an event carries no id, or the id of a
\* player who has joined, never the id a later join_game will draw
CardCallers == {NoPid} \cup RosterIds(game)

InitCards == Created(GmNames, {4}, {MaxRoster})

NextCards ==
  \/ JoinGame({"Bob"})
  \/ StartGame({1})
  \/ ClaimCard(MaxCardEvents, CardCallers, CardInputs)
  \/ ScanCard(MaxCardEvents, CardCallers, CardInputs)
  \/ DropCard(MaxCardEvents, CardCallers, CardInputs)

SpecCards == InitCards /\ [][NextCards]_vars

(* ---------------------------------------------------------------------- *)
(* Properties.  What a property says of a caller or of a step is written   *)
(* here from the roster and the committed entries themselves.  A step of a *)
(* handler is a step that satisfies the handler's action; its              *)
(* acknowledgement names the event, which is tested first.                 *)
(* ---------------------------------------------------------------------- *)
\* pid is the playerId of the session's GM
TheGM(pid) ==
  \E i \in 1..Len(game.players) :
     game.players[i].playerId = pid /\ game.players[i].role = "GM"

\* some entry of the current step of g is committed
CurrentStepCommitted(g) ==
  \/ g.phase = "BIZ" /\ g.bizStep = "ML_BID"
       /\ \E k \in DOMAIN g.biz.mlBids : g.biz.mlBids[k].committed
  \/ g.phase = "BIZ" /\ g.bizStep = "MOVE"
       /\ \E k \in DOMAIN g.biz.move : g.biz.move[k].committed
  \/ g.phase = "BIZ" /\ g.bizStep = "AUCTION_ENVELOPE"
       /\ \E k \in DOMAIN g.biz.auction.entries :
             g.biz.auction.entries[k].committed \/ g.biz.auction.entries[k].finalCommitted
  \/ g.phase = "BIZ" /\ g.bizStep = "ACQUIRE"
       /\ \E k \in DOMAIN g.biz.acquire.entries : g.biz.acquire.entries[k].committed
  \/ g.phase = "CRYPTO"
       /\ \E k \in DOMAIN g.crypto.entries : g.crypto.entries[k].committed
  \/ g.phase = "SETTLE"
       /\ \E k \in DOMAIN g.settle.entries :
             g.settle.entries[k].started \/ g.settle.entries[k].paid

\* C1: in every reachable state phase is BIZ, CRYPTO or SETTLE exactly when
\* status is IN_PROGRESS, and bizStep is non-null exactly when phase is BIZ
C1_PhaseStatusStep ==
  /\ (game.phase \in {"BIZ", "CRYPTO", "SETTLE"}) <=> (game.status = "IN_PROGRESS")
  /\ (game.bizStep # Null) <=> (game.phase = "BIZ")

\* the game has been played to its end: the last gm_next cleared phase and step
C1_Witness ==
  /\ game.status = "GAME_OVER" /\ game.phase = Null /\ game.bizStep = Null
  /\ game.year = game.config.yearsTotal
  /\ ack.event = "gm_next" /\ ack.ok

\* C2: gm_next and gm_back by a caller that is not the GM (no playerId, an
\* unknown one, another player's) are acknowledged ok:false FORBIDDEN and
\* leave the whole aggregate as it was
C2_NonGmForbidden ==
  [][\A pid \in Callers :
       (ack'.event \in {"gm_next", "gm_back"} /\ ~TheGM(pid)
          /\ (gm_next(GameId, pid) \/ gm_back(GameId, pid)))
         => (~ack'.ok /\ ack'.code = "FORBIDDEN" /\ ~ack'.pushed /\ game' = game)]_vars

\* a gm_back refused as FORBIDDEN in a running game with a second player
C2_Witness ==
  /\ ack.event = "gm_back" /\ ~ack.ok /\ ack.code = "FORBIDDEN"
  /\ game.status = "IN_PROGRESS" /\ Len(game.players) = 2

\* the one step gm_next may take from g to h, on the graph of the steps;
\* a game that is on no step of the graph has no successor
IsSuccessor(g, h) ==
  CASE g.phase = "BIZ" /\ g.bizStep = "ML_BID" ->
         h.status = g.status /\ h.phase = "BIZ" /\ h.bizStep = "MOVE" /\ h.year = g.year
    [] g.phase = "BIZ" /\ g.bizStep = "MOVE" ->
         h.status = g.status /\ h.phase = "BIZ" /\ h.bizStep = "AUCTION_ENVELOPE"
           /\ h.year = g.year
    [] g.phase = "BIZ" /\ g.bizStep = "AUCTION_ENVELOPE" ->
         h.status = g.status /\ h.phase = "BIZ" /\ h.bizStep = "ACQUIRE" /\ h.year = g.year
    [] g.phase = "BIZ" /\ g.bizStep = "ACQUIRE" ->
         h.status = g.status /\ h.phase = "CRYPTO" /\ h.bizStep = Null /\ h.year = g.year
    [] g.phase = "CRYPTO" ->
         h.status = g.status /\ h.phase = "SETTLE" /\ h.bizStep = Null /\ h.year = g.year
    [] g.phase = "SETTLE" ->
         IF g.year < g.config.yearsTotal
         THEN h.status = g.status /\ h.phase = "BIZ" /\ h.bizStep = "ML_BID"
                /\ h.year = g.year + 1
         ELSE h.status = "GAME_OVER" /\ h.year = g.year
    [] OTHER -> FALSE

\* C3: every gm_next by the GM that is acknowledged ok moves the game to the
\* immediate successor of its step (the year growing by one on the SETTLE
\* transition only), in every status, LOBBY and GAME_OVER too
C3_NextIsSuccessor ==
  [][\A pid \in Callers :
       (ack'.event = "gm_next" /\ ack'.ok /\ TheGM(pid) /\ gm_next(GameId, pid))
         => IsSuccessor(game, game')]_vars

\* C4: while an entry of the current step is committed, gm_back by the GM is
\* refused as GUARD_FAIL and the whole aggregate stays as it was
C4_BackGuarded ==
  [][\A pid \in Callers :
       (ack'.event = "gm_back" /\ TheGM(pid) /\ CurrentStepCommitted(game)
          /\ gm_back(GameId, pid))
         => (~ack'.ok /\ ack'.code = "GUARD_FAIL" /\ game' = game)]_vars

\* a gm_back refused in SETTLE, where a player has started the settlement
C4_Witness ==
  /\ ack.event = "gm_back" /\ ~ack.ok /\ ack.code = "GUARD_FAIL"
  /\ game.phase = "SETTLE" /\ CurrentStepCommitted(game)

\* the one step gm_back may take from g to h: the step before, in the same
\* year; BIZ.ML_BID has no step before it in its year
IsPredecessor(g, h) ==
  /\ h.status = g.status /\ h.year = g.year
  /\ CASE g.phase = "BIZ" /\ g.bizStep = "MOVE" -> h.phase = "BIZ" /\ h.bizStep = "ML_BID"
       [] g.phase = "BIZ" /\ g.bizStep = "AUCTION_ENVELOPE" ->
            h.phase = "BIZ" /\ h.bizStep = "MOVE"
       [] g.phase = "BIZ" /\ g.bizStep = "ACQUIRE" ->
            h.phase = "BIZ" /\ h.bizStep = "AUCTION_ENVELOPE"
       [] g.phase = "CRYPTO" -> h.phase = "BIZ" /\ h.bizStep = "ACQUIRE"
       [] g.phase = "SETTLE" -> h.phase = "CRYPTO" /\ h.bizStep = Null
       [] OTHER -> FALSE

\* C5: in every IN_PROGRESS state with no committed entry of the current
\* step, gm_back by the GM is acknowledged ok and leaves the game at the step
\* before, in the same year; BIZ.ML_BID at the start of a year included
C5_BackRestoresPrior ==
  [][\A pid \in Callers :
       (ack'.event = "gm_back" /\ TheGM(pid) /\ game.status = "IN_PROGRESS"
          /\ ~CurrentStepCommitted(game) /\ gm_back(GameId, pid))
         => (ack'.ok /\ IsPredecessor(game, game'))]_vars

\* C6: after any sequence of pick_market, gm_next and gm_back, across the
\* years too, no two distinct players have the same non-null marketId
C6_MarketExclusive ==
  \A i, j \in 1..Len(game.players) :
     (i # j /\ game.players[i].marketId # Null)
       => game.players[i].marketId # game.players[j].marketId

\* C7: once a player's round-1 entry is committed, a later commit_auction_bid
\* by that player changes neither bidUsd nor usedLobbyist, and clears no
\* committed final bid
C7_SealedBidWriteOnce ==
  [][\A pid \in Callers : \A bid \in AuctionAmounts, lob \in BOOLEAN :
       LET old == game.biz.auction.entries
           new == game'.biz.auction.entries
       IN (ack'.event = "commit_auction_bid" /\ pid \in DOMAIN old /\ old[pid].committed
             /\ commit_auction_bid(GameId, pid, bid, lob))
            => /\ pid \in DOMAIN new
               /\ new[pid].bidUsd = old[pid].bidUsd
               /\ new[pid].usedLobbyist = old[pid].usedLobbyist
               /\ old[pid].finalCommitted
                    => (new[pid].finalCommitted /\ new[pid].finalBidUsd = old[pid].finalBidUsd)
    ]_vars

\* every player of the roster of g has a committed round-1 entry
Round1Complete(g) ==
  \A i \in 1..Len(g.players) :
     /\ g.players[i].playerId \in DOMAIN g.biz.auction.entries
     /\ g.biz.auction.entries[g.players[i].playerId].committed
\* some round-1 entry of g declares the lobbyist
SomeLobbyist(g) ==
  \E k \in DOMAIN g.biz.auction.entries : g.biz.auction.entries[k].usedLobbyist

\* C8: lobbyistPhaseActive turns from false to true only in the step
\* AUCTION_ENVELOPE, with a committed round-1 entry of every player of the
\* roster and the lobbyist declared by at least one entry
C8_WindowOpensGuarded ==
  [][(~game.biz.auction.lobbyistPhaseActive /\ game'.biz.auction.lobbyistPhaseActive)
       => /\ game.phase = "BIZ" /\ game.bizStep = "AUCTION_ENVELOPE"
          /\ game'.phase = "BIZ" /\ game'.bizStep = "AUCTION_ENVELOPE"
          /\ ack'.event \in {"commit_auction_bid", "gm_open_lobbyist_window"}
          /\ Round1Complete(game') /\ SomeLobbyist(game')]_vars

\* the GM has opened the window of a two-player auction
C8_Witness ==
  /\ ack.event = "gm_open_lobbyist_window" /\ ack.ok
  /\ game.biz.auction.lobbyistPhaseActive /\ Len(game.players) = 2

\* C9: commit_auction_final_bid is acknowledged ok only in AUCTION_ENVELOPE
\* with the window active and the caller's round-1 entry declaring the
\* lobbyist; with the window inactive it is refused as BAD_STATE, with the
\* window active and no lobbyist flag as FORBIDDEN, and the aggregate stays
\* as it was; and the commit_auction_bid that completes round 1 with a
\* lobbyist declared leaves the window active
C9_FinalBidGuarded ==
  [][/\ ack'.event = "commit_auction_final_bid" =>
          \A pid \in Callers, bid \in AuctionAmounts :
             LET entries == game.biz.auction.entries
                 flag == pid \in DOMAIN entries /\ entries[pid].usedLobbyist
                 active == game.biz.auction.lobbyistPhaseActive
                 inStep == game.phase = "BIZ" /\ game.bizStep = "AUCTION_ENVELOPE"
             IN commit_auction_final_bid(GameId, pid, bid)
                  => /\ ack'.ok => (inStep /\ active /\ flag)
                     /\ ~active => (~ack'.ok /\ ack'.code = "BAD_STATE" /\ game' = game)
                     /\ (inStep /\ active /\ ~flag)
                          => (~ack'.ok /\ ack'.code = "FORBIDDEN" /\ game' = game)
     /\ (ack'.event = "commit_auction_bid" /\ ack'.ok
           /\ Round1Complete(game') /\ SomeLobbyist(game'))
          => game'.biz.auction.lobbyistPhaseActive
    ]_vars

\* a final bid refused as FORBIDDEN while the window of a two-player auction
\* is active
C9_Witness ==
  /\ ack.event = "commit_auction_final_bid" /\ ~ack.ok /\ ack.code = "FORBIDDEN"
  /\ game.bizStep = "AUCTION_ENVELOPE" /\ game.biz.auction.lobbyistPhaseActive
  /\ Len(game.players) = 2

\* the amounts an entry may hold
BidValues == {NoAmount} \cup 0..MaxBid
\* g with the round-1 amount, or the final amount, of p's entry replaced
WithBid(g, p, b) == [g EXCEPT !.biz.auction.entries[p].bidUsd = b]
WithFinalBid(g, p, b) == [g EXCEPT !.biz.auction.entries[p].finalBidUsd = b]

\* C10: in AUCTION_ENVELOPE, while some player has not committed round 1, the
\* view pushed to a non-GM player v is the same whatever the bid amounts of
\* another player p are
C10_SealedView ==
  \A v, p \in RosterIds(game) :
     (v # p /\ ~TheGM(v) /\ game.phase = "BIZ" /\ game.bizStep = "AUCTION_ENVELOPE"
        /\ ~Round1Complete(game) /\ p \in DOMAIN game.biz.auction.entries)
       => \A b \in BidValues :
             /\ gameView(WithBid(game, p, b), v) = gameView(game, v)
             /\ gameView(WithFinalBid(game, p, b), v) = gameView(game, v)

\* the pending choices a player may have locked in or not
PendingChoices(target) ==
  { [lawyer |-> l, lobby |-> lob] :
      l \in {NoLawyer, LawyerChoice("SHIELD_LOBBY", Null)},
      lob \in {<<>>, <<[type |-> "STEAL", targetPid |-> target]>>,
               <<[type |-> "SABOTAGE", targetPid |-> target]>>} }
\* g with the pending choices of p replaced
WithPending(g, p, choice) == [g EXCEPT !.settle.pending = Put(@, p, choice)]

\* C11: the view of a viewer v shows of another player p's settlement only
\* started and paid: no final amount, no breakdown, no pending choice; and
\* it is the same settle projection whatever p's pending choices are
C11_SettleViewSealed ==
  \A v \in Callers : \A p \in RosterIds(game) \ {v} :
     LET view == gameView(game, v).settle
     IN /\ p \in DOMAIN view.entries
             => /\ view.entries[p].started = game.settle.entries[p].started
                /\ view.entries[p].paid = game.settle.entries[p].paid
                /\ ~view.entries[p].finalKnown
                /\ view.entries[p].finalUsd = 0
                /\ view.entries[p].finalBreakdown = <<>>
        /\ p \notin DOMAIN view.pending
        /\ \A choice \in PendingChoices(v) :
              gameView(WithPending(game, p, choice), v).settle = view

\* a two-player audit after the final computation, player 1 with a final
\* amount that is not 0 and player 2 looking
C11_Witness ==
  /\ Len(game.players) = 2 /\ game.settle.stage = "FINAL"
  /\ 1 \in DOMAIN game.settle.entries
  /\ game.settle.entries[1].finalKnown /\ game.settle.entries[1].finalUsd # 0

\* the entry of pid in g is there and started
Started(g, pid) == pid \in DOMAIN g.settle.entries /\ g.settle.entries[pid].started

\* C12: a commit_settlement_ready refused as NO_POWER leaves the used flag
\* of every expert card and the started flag of every player as they were
C12_NoPowerAtomic ==
  [][(ack'.event = "commit_settlement_ready" /\ ~ack'.ok /\ ack'.code = "NO_POWER")
       => /\ game'.inventory = game.inventory
          /\ \A pid \in Callers : Started(game', pid) = Started(game, pid)]_vars

\* the step is a pending-choice event of pid: audit_set_pending_lawyer,
\* audit_add_pending_lobby or audit_remove_pending_lobby
PendingEventOf(pid) ==
  \/ ack'.event = "audit_set_pending_lawyer"
       /\ \E l \in LawyerInputs : audit_set_pending_lawyer(GameId, pid, l)
  \/ ack'.event = "audit_add_pending_lobby"
       /\ \E t \in LobbyKinds, target \in Callers : audit_add_pending_lobby(GameId, pid, t, target)
  \/ ack'.event = "audit_remove_pending_lobby"
       /\ \E i \in IndexInputs : audit_remove_pending_lobby(GameId, pid, i)

\* C13 as stated: once a player's entry is started, every pending-choice
\* event of that player is refused as LOCKED and the player's pending lawyer
\* and attack list stay as they were
C13_LockedAfterStart ==
  [][\A pid \in Callers :
       (Started(game, pid) /\ PendingEventOf(pid))
         => (~ack'.ok /\ ack'.code = "LOCKED"
               /\ game'.settle.pending[pid] = game.settle.pending[pid])]_vars

\* C13 amended: the refusal is LOCKED in the SETTLE phase and BAD_STATE once
\* the game is over (the entries of the last year stay started, the phase is
\* null); in both the settle sub-state stays as it was
C13_RefusedAfterStart ==
  [][\A pid \in Callers :
       (Started(game, pid) /\ PendingEventOf(pid))
         => (~ack'.ok
               /\ ack'.code = (IF game.phase = "SETTLE" THEN "LOCKED" ELSE "BAD_STATE")
               /\ game'.settle = game.settle)]_vars

\* player 1 has started with the shield chosen and is refused a new choice
C13_Witness ==
  /\ ack.event = "audit_set_pending_lawyer" /\ ~ack.ok /\ ack.code = "LOCKED"
  /\ Started(game, 1) /\ game.settle.pending[1].lawyer.mode = "SHIELD_LOBBY"

\* the players of the roster, read from the aggregate
Roster(g) == {g.players[i].playerId : i \in DOMAIN g.players}

\* some settlement entry holds a final amount
SomeFinal(g) == \E pid \in DOMAIN g.settle.entries : g.settle.entries[pid].finalKnown

\* C14: the settlement stage is FINAL or PAID, or some entry holds a final
\* amount, only if every player of the roster has started
C14_FinalNeedsAllStarted ==
  (game.settle.stage \in {"FINAL", "PAID"} \/ SomeFinal(game))
    => \A p \in Roster(game) : Started(game, p)

\* a two-player audit whose final amounts were computed
C14_Witness ==
  /\ Len(game.players) = 2 /\ game.settle.stage = "FINAL"
  /\ \A p \in Roster(game) : Started(game, p) /\ game.settle.entries[p].finalKnown

\* the final amounts of the settlement entries
Finals(g) ==
  [pid \in DOMAIN g.settle.entries |->
     [known |-> g.settle.entries[pid].finalKnown,
      usd |-> g.settle.entries[pid].finalUsd,
      breakdown |-> g.settle.entries[pid].finalBreakdown]]

\* C15: once the stage is FINAL or PAID no event within the year changes an
\* entry's final amount or breakdown, and the stage never goes from PAID
\* back to FINAL
C15_FinalOnce ==
  [][(game.settle.stage \in {"FINAL", "PAID"} /\ game'.year = game.year)
       => /\ \A pid \in DOMAIN game.settle.entries :
               pid \in DOMAIN game'.settle.entries /\ Finals(game')[pid] = Finals(game)[pid]
          /\ ~(game.settle.stage = "PAID" /\ game'.settle.stage = "FINAL")]_vars

\* paid implies started, and the stage is PAID exactly when every player of
\* the roster has paid
PaidConsistent(g) ==
  /\ \A pid \in DOMAIN g.settle.entries : g.settle.entries[pid].paid => g.settle.entries[pid].started
  /\ (g.settle.stage = "PAID")
       <=> (\A p \in Roster(g) : p \in DOMAIN g.settle.entries /\ g.settle.entries[p].paid)

\* C16: audit_pay succeeds only in stage FINAL; before it is refused (WAIT,
\* or BAD_STATE for a player who has not started) and paid stays false; paid
\* implies started; the stage is PAID exactly when every roster player paid
C16_PayAfterFinal ==
  [][/\ ack'.event = "audit_pay" =>
          \A pid \in Callers : audit_pay(GameId, pid) =>
             /\ ack'.ok => game.settle.stage = "FINAL"
             /\ (game.phase = "SETTLE" /\ game.settle.stage \notin {"FINAL", "PAID"}) =>
                  /\ ~ack'.ok
                  /\ ack'.code = (IF Started(game, pid) THEN "WAIT" ELSE "BAD_STATE")
                  /\ ~game'.settle.entries[pid].paid
     /\ (game'.status = "IN_PROGRESS" /\ Len(game'.players) > 0) => PaidConsistent(game')]_vars

(* The final computation, read from what it stored: entry.finalUsd and the  *)
(* rows of entry.finalBreakdown, against the cards and the pending attacks  *)
(* of the aggregate.                                                        *)
\* the final amounts of the roster were computed
FinalComputed(g) ==
  /\ g.settle.stage \in {"FINAL", "PAID"}
  /\ \A p \in Roster(g) : p \in DOMAIN g.settle.entries /\ g.settle.entries[p].finalKnown

FinalUsd(g, p) == g.settle.entries[p].finalUsd
FinalRows(g, p) == g.settle.entries[p].finalBreakdown

\* the base preview total of p
BaseUsd(g, p) == auditPreview(g, p, BlockedKeyOf(PendingOf(g, p))).usd

\* the production (times the unit) of the highest investment card p holds,
\* 0 when p holds none
HighestCardUsd(g, p) ==
  LET cards == g.inventory[p].investments
      S == {cards[i].usdProduction * 1000 : i \in DOMAIN cards}
  IN IF S = {} THEN 0 ELSE CHOOSE m \in S : \A q \in S : m >= q

\* the attacks that are not blocked, each with its attacker, target and type
Unblocked(g) ==
  SelectSeq(TargetAttacks(g, [p \in Roster(g) |->
                                 auditPreview(g, p, BlockedKeyOf(PendingOf(g, p)))], 1),
            LAMBDA a : ~a.blocked)

\* how many unblocked attacks of the type go from a to t
CountOf(g, type, a, t) ==
  Len(SelectSeq(Unblocked(g), LAMBDA x : x.type = type /\ x.fromPid = a /\ x.targetPid = t))

\* how many rows of p's breakdown carry the label, the amount and the other player
RowsOf(g, p, label, usd, who) ==
  Cardinality({i \in DOMAIN FinalRows(g, p) :
     /\ FinalRows(g, p)[i].label = label
     /\ FinalRows(g, p)[i].usd = usd
     /\ FinalRows(g, p)[i].who = who})

\* what p gains and loses by the unblocked STEALs
StealGains(g, p) ==
  SumOver(Roster(g) \ {p}, [t \in Roster(g) \ {p} |-> CountOf(g, "STEAL", p, t) * HighestCardUsd(g, t)])
StealLosses(g, p) ==
  SumOver(Roster(g) \ {p}, [a \in Roster(g) \ {p} |-> CountOf(g, "STEAL", a, p) * HighestCardUsd(g, p)])

NoSabotage(g) == \A i \in DOMAIN Unblocked(g) : Unblocked(g)[i].type # "SABOTAGE"

\* C17: every unblocked STEAL of a against t takes x from t and gives the same
\* x to a, x the production (times the unit) of t's highest investment card;
\* with STEALs only, each final total is the base total plus the gains minus
\* the losses and the final totals sum to the base totals
C17_StealZeroSum ==
  FinalComputed(game) =>
    /\ \A a \in Roster(game), t \in Roster(game) :
         (a # t /\ HighestCardUsd(game, t) > 0) =>
            /\ RowsOf(game, t, "STEAL", 0 - HighestCardUsd(game, t), a) = CountOf(game, "STEAL", a, t)
            /\ RowsOf(game, a, "STEAL", HighestCardUsd(game, t), t) = CountOf(game, "STEAL", a, t)
    /\ NoSabotage(game) =>
         /\ \A p \in Roster(game) :
              FinalUsd(game, p) = BaseUsd(game, p) + StealGains(game, p) - StealLosses(game, p)
         /\ SumOver(Roster(game), [p \in Roster(game) |-> FinalUsd(game, p)])
              = SumOver(Roster(game), [p \in Roster(game) |-> BaseUsd(game, p)])

\* finals computed with STEALs only, player 1 having stolen from player 2
C17_Witness ==
  /\ FinalComputed(game) /\ NoSabotage(game)
  /\ CountOf(game, "STEAL", 1, 2) >= 1 /\ HighestCardUsd(game, 2) > 0
  /\ FinalUsd(game, 1) > BaseUsd(game, 1)

\* the running total of p before row k of its breakdown
RunningBefore(g, p, k) ==
  SumOver(1..(k - 1), [i \in 1..(k - 1) |-> FinalRows(g, p)[i].usd])

\* floor(T * 0.5)
FloorHalf(T) == (T - (T % 2)) \div 2

\* C18 as stated: an unblocked SABOTAGE applied at the running total T lowers
\* it by floor(T * 0.5); a blocked SABOTAGE lowers it by 0
C18_SabotageTakesFloorHalf ==
  FinalComputed(game) =>
    \A p \in Roster(game) : \A k \in DOMAIN FinalRows(game, p) :
       /\ FinalRows(game, p)[k].label = "SABOTAGE" =>
            FinalRows(game, p)[k].usd = 0 - FloorHalf(RunningBefore(game, p, k))
       /\ FinalRows(game, p)[k].label = "BLOCKED_SABOTAGE" => FinalRows(game, p)[k].usd = 0

\* C18 amended: an unblocked SABOTAGE applied at the running total T leaves
\* floor(T * 0.5), that is lowers it by T - floor(T * 0.5); the final total
\* is the running total after the last row; a blocked SABOTAGE lowers by 0
C18_SabotageLeavesFloorHalf ==
  FinalComputed(game) =>
    \A p \in Roster(game) :
       /\ \A k \in DOMAIN FinalRows(game, p) :
            /\ FinalRows(game, p)[k].label = "SABOTAGE" =>
                 RunningBefore(game, p, k + 1) = FloorHalf(RunningBefore(game, p, k))
            /\ FinalRows(game, p)[k].label = "BLOCKED_SABOTAGE" => FinalRows(game, p)[k].usd = 0
       /\ FinalUsd(game, p) = RunningBefore(game, p, Len(FinalRows(game, p)) + 1)

\* a SABOTAGE was applied at an odd running total
C18_Witness ==
  /\ FinalComputed(game)
  /\ \E p \in Roster(game) : \E k \in DOMAIN FinalRows(game, p) :
       /\ FinalRows(game, p)[k].label = "SABOTAGE"
       /\ RunningBefore(game, p, k) % 2 = 1

RECURSIVE HalveTimes(_, _)
\* T halved (floor) n times
HalveTimes(T, n) == IF n = 0 THEN T ELSE HalveTimes(FloorHalf(T), n - 1)

\* how many unblocked SABOTAGEs aim at p
SabotagesOn(g, p) ==
  SumOver(Roster(g) \ {p}, [a \in Roster(g) \ {p} |-> CountOf(g, "SABOTAGE", a, p)])

\* C19: every unblocked STEAL is applied before any unblocked SABOTAGE: each
\* final total is the base total with all the player's STEAL gains and losses
\* applied, halved once per unblocked SABOTAGE aimed at the player, and no
\* STEAL row of a breakdown follows a SABOTAGE row
C19_StealsBeforeSabotages ==
  FinalComputed(game) =>
    \A p \in Roster(game) :
       /\ FinalUsd(game, p) =
            HalveTimes(BaseUsd(game, p) + StealGains(game, p) - StealLosses(game, p),
                       SabotagesOn(game, p))
       /\ \A i, j \in DOMAIN FinalRows(game, p) :
            (FinalRows(game, p)[i].label = "SABOTAGE" /\ FinalRows(game, p)[j].label = "STEAL")
              => j < i

\* finals computed where the order tells: a player with STEAL gains or losses
\* was sabotaged, and halving first would give another total
C19_Witness ==
  /\ FinalComputed(game)
  /\ \E p \in Roster(game) :
       /\ SabotagesOn(game, p) >= 1
       /\ HalveTimes(BaseUsd(game, p), SabotagesOn(game, p))
            + StealGains(game, p) - StealLosses(game, p) # FinalUsd(game, p)

\* the attacks of the type aimed at t in the pending lists
Aimed(g, t, type) ==
  SumOver(Roster(g) \ {t}, [a \in Roster(g) \ {t} |->
     Len(SelectSeq(PendingOf(g, a).lobby, LAMBDA x : x.type = type /\ x.targetPid = t))])

\* the rows of t's breakdown with the label (and a loss, for a STEAL)
Labelled(rows, label) ==
  {i \in DOMAIN rows : rows[i].label = label /\ (label = "STEAL" => rows[i].usd < 0)}

\* t's breakdown had t held no shield
UnshieldedRows(g, t) ==
  computeAuditFinalForAll([g EXCEPT !.settle.pending[t].lawyer = NoLawyer]).settle.entries[t].finalBreakdown

\* what each attack aimed at t takes from t's total when all are applied
Reductions(g, t) ==
  LET rows == UnshieldedRows(g, t)
  IN {0 - rows[i].usd : i \in Labelled(rows, "STEAL") \cup Labelled(rows, "SABOTAGE")}
     \cup (IF Aimed(g, t, "STEAL") > 0 /\ HighestCardUsd(g, t) = 0 THEN {0} ELSE {})

\* C20: a shielded target aimed at by k >= 1 attacks has exactly one of them
\* skipped and the others applied, the skipped one being an attack that takes
\* the most from the target's total as the totals stand when the attacks are
\* applied; a target without a shield has none skipped
C20_ShieldSkipsWorst ==
  FinalComputed(game) =>
    \A t \in Roster(game) :
      LET rows == FinalRows(game, t)
          shield == PendingOf(game, t).lawyer.mode = "SHIELD_LOBBY"
          k == Aimed(game, t, "STEAL") + Aimed(game, t, "SABOTAGE")
          skSteal == Cardinality(Labelled(rows, "BLOCKED_STEAL"))
          skSabotage == Cardinality(Labelled(rows, "BLOCKED_SABOTAGE"))
          worst == CHOOSE m \in Reductions(game, t) : \A r \in Reductions(game, t) : m >= r
      IN /\ skSteal + skSabotage = (IF shield /\ k >= 1 THEN 1 ELSE 0)
         /\ Cardinality(Labelled(rows, "SABOTAGE")) = Aimed(game, t, "SABOTAGE") - skSabotage
         /\ HighestCardUsd(game, t) > 0 =>
              Cardinality(Labelled(rows, "STEAL")) = Aimed(game, t, "STEAL") - skSteal
         /\ skSteal = 1 => HighestCardUsd(game, t) = worst
         /\ skSabotage = 1 =>
              \E i \in Labelled(UnshieldedRows(game, t), "SABOTAGE") :
                 0 - UnshieldedRows(game, t)[i].usd = worst

(* The audit preview, from the cards, the year's trends and the pending     *)
(* lawyer of the aggregate.                                                 *)
\* the bonus of a group of n cards
Staircase(n) ==
  CASE n \in 0..1 -> 0
    [] n \in 2..3 -> 10000
    [] n \in 4..5 -> 25000
    [] OTHER -> 50000

\* the sizes of the groups of cards a player holds, by continent
GroupSizes(g, p) ==
  LET cards == g.inventory[p].investments
  IN {Cardinality({i \in DOMAIN cards : cards[i].continent = cards[k].continent}) : k \in DOMAIN cards}

\* C21: bonusForCount is 0 for 0..1, 10000 for 2..3, 25000 for 4..5 and 50000
\* from 6 on, and never decreases, on every group size up to one more than
\* the largest a player holds
C21_BonusStaircase ==
  \A p \in Roster(game) : \A size \in GroupSizes(game, p) \cup {0} : \A n \in 0..(size + 1) :
     /\ bonusForCount(n) = Staircase(n)
     /\ n > 0 => bonusForCount(n) >= bonusForCount(n - 1)

\* a preview of an inventory with a group of six cards
C21_Witness ==
  /\ ack.event = "preview_audit" /\ ack.ok
  /\ \E size \in GroupSizes(game, 1) : size >= 6

\* the year's global trend of the key is active
Active(g, key) == g.year \in DOMAIN g.trends /\ \E t \in g.trends[g.year].globals : t.key = key
\* p's pending lawyer blocks the trend of the key
Blocks(g, p, key) ==
  /\ p \in DOMAIN g.settle.pending
  /\ g.settle.pending[p].lawyer.mode = "BLOCK_TREND"
  /\ g.settle.pending[p].lawyer.trendKey = key
\* the trend of the key applies to p
Hits(g, p, key) == Active(g, key) /\ ~Blocks(g, p, key)

RECURSIVE SumSeq(_, _)
\* sum of f[i] over the indexes of the sequence
SumSeq(seq, f) == IF seq = <<>> THEN 0 ELSE f[Len(seq)] + SumSeq(SubSeq(seq, 1, Len(seq) - 1), f)

\* the sum of Staircase over the groups the field makes of the cards
GroupBonus(cards, field) ==
  LET keys == {cards[i][field] : i \in DOMAIN cards}
      size(k) == Cardinality({i \in DOMAIN cards : cards[i][field] = k})
      RECURSIVE Total(_)
      Total(ks) == IF ks = {} THEN 0
                   ELSE LET k == CHOOSE x \in ks : TRUE IN Staircase(size(k)) + Total(ks \ {k})
  IN Total(keys)

\* adjustedTraditionalBase + regionalBonus + globalBonus
\*   + miningProductionValue - electricityCost
PreviewTotal(g, p) ==
  LET cards == g.inventory[p].investments
      farms == g.inventory[p].miningFarms
      base == 1000 * SumSeq(cards, [i \in DOMAIN cards |-> cards[i].usdProduction])
      zeroed == IF Hits(g, p, "ECONOMIC_CRISIS_NO_TRAD_BASE") THEN 0 ELSE base
      adjusted == IF Active(g, "TRAD_INV_DOUBLE_USD") THEN 2 * zeroed ELSE zeroed
      bonuses == IF Hits(g, p, "ANTIMONOPOLY_NO_BONUSES") THEN 0
                 ELSE GroupBonus(cards, "continent") + GroupBonus(cards, "type")
      mined == SumSeq(farms, [i \in DOMAIN farms |->
                 farms[i].cryptoProduction * g.crypto.rates[farms[i].crypto]])
      mining == IF Active(g, "LOWER_DIFFICULTY") THEN 2 * mined ELSE mined
      power == SumSeq(farms, [i \in DOMAIN farms |-> farms[i].electricityUSD])
      electricity == IF Hits(g, p, "EXPENSIVE_ELECTRICITY") THEN 2 * power ELSE power
  IN adjusted + bonuses + mining - electricity

\* p holds two cards of production 3 and 5 of one group, no farm, and no
\* trend of the year touches the preview
TwoCardScenario(g, p) ==
  LET cards == g.inventory[p].investments
  IN /\ Len(cards) = 2 /\ {cards[1].usdProduction, cards[2].usdProduction} = {3, 5}
     /\ cards[1].continent = cards[2].continent
     /\ g.inventory[p].miningFarms = <<>>
     /\ \A t \in g.trends[g.year].globals : t.key \notin AuditTrendKeys

\* the total a preview by pid returned is the formula's, on the aggregate
\* the preview left
PreviewReturnsTotal ==
  ack'.event = "preview_audit" =>
    \A pid \in Callers : (preview_audit(GameId, pid) /\ ack'.ok) =>
       ack'.value = PreviewTotal(game', pid)

\* C22 as stated: the preview total is the formula's, and two cards of
\* production 3 and 5 forming a group give 8000 + 10000
C22_PreviewFormula ==
  [][/\ PreviewReturnsTotal
     /\ ack'.event = "preview_audit" =>
          \A pid \in Callers : (preview_audit(GameId, pid) /\ ack'.ok /\ TwoCardScenario(game', pid))
             => ack'.value = 8000 + 10000]_vars

\* C22 amended: the preview total is the formula's; two cards of production
\* 3 and 5 of one continent are of one type too and give 8000 + 10000 + 10000
C22_PreviewFormulaBothBonuses ==
  [][/\ PreviewReturnsTotal
     /\ ack'.event = "preview_audit" =>
          \A pid \in Callers : (preview_audit(GameId, pid) /\ ack'.ok /\ TwoCardScenario(game', pid))
             => ack'.value = 8000 + 10000 + 10000]_vars

\* a preview of cards and a farm under a trend the pending lawyer blocks
C22_Witness ==
  /\ ack.event = "preview_audit" /\ ack.ok /\ ack.value # 0
  /\ Len(game.inventory[1].investments) >= 2 /\ Len(game.inventory[1].miningFarms) >= 1
  /\ \E key \in {"ECONOMIC_CRISIS_NO_TRAD_BASE", "ANTIMONOPOLY_NO_BONUSES", "EXPENSIVE_ELECTRICITY"} :
       Active(game, key) /\ Blocks(game, 1, key)

\* the aggregate with the empty settlement entry and pending record of pid
\* added when pid has none
WithEmptyEntry(g, pid) ==
  [g EXCEPT
     !.settle.entries = IF pid \in DOMAIN @ THEN @
        ELSE [q \in DOMAIN @ \cup {pid} |->
                IF q = pid THEN [started |-> FALSE, finalUsd |-> 0, finalKnown |-> FALSE,
                                 finalBreakdown |-> <<>>, paid |-> FALSE]
                ELSE @[q]],
     !.settle.pending = IF pid \in DOMAIN @ THEN @
        ELSE [q \in DOMAIN @ \cup {pid} |->
                IF q = pid THEN [lawyer |-> [mode |-> "NONE", trendKey |-> "null"], lobby |-> <<>>]
                ELSE @[q]]]

\* C23 as stated: preview_audit leaves the aggregate exactly as it was
C23_PreviewNoEffect ==
  [][ack'.event = "preview_audit" => game' = game]_vars

\* C23 amended: preview_audit changes nothing but adds the caller's empty
\* settlement entry and pending record when the caller had none; a refused
\* preview changes nothing; the total returned is the one a preview of the
\* aggregate it left returns
C23_PreviewOnlyCreatesEntry ==
  [][ack'.event = "preview_audit" =>
       \A pid \in Callers : preview_audit(GameId, pid) =>
          /\ game' = (IF ack'.ok THEN WithEmptyEntry(game, pid) ELSE game)
          /\ ack'.ok => /\ WithEmptyEntry(game', pid) = game'
                        /\ ack'.value = PreviewTotal(game', pid)
                        /\ ack'.value = PreviewTotal(game, pid)]_vars

\* a second preview in a row: the entry is there and the aggregate stays
C23_Witness ==
  /\ ack.event = "preview_audit" /\ ack.ok /\ nEvents = 2
  /\ ack.value # 0 /\ game.phase # "SETTLE"
  /\ 1 \in DOMAIN game.settle.entries

(* The card pool *)
\* the cards of the catalog, each with the availability set of its kind
PoolOf(cardId) ==
  CASE cardId[1] = "TI" -> "investments"
    [] cardId[1] = "MF" -> "miningFarms"
    [] OTHER -> "experts"
CatalogIds ==
  {<<"TI", n>> : n \in 1..MaxInvestments} \cup {<<"MF", n>> : n \in 1..MaxFarms}
    \cup {<<"EX", n>> : n \in 1..MaxExperts}

\* the places (inventory, list, index) that hold the card
HeldAt(g, cardId) ==
  {<<pid, key, i>> \in (DOMAIN g.inventory) \X {"investments", "miningFarms", "experts"} \X (1..MaxCardEvents) :
     i <= Len(g.inventory[pid][key]) /\ g.inventory[pid][key][i].cardId = cardId}

Available(g, cardId) ==
  cardId \in g.availableCards.investments \cup g.availableCards.miningFarms \cup g.availableCards.experts

\* every card is in its availability set and in no inventory, or in no
\* availability set and at one place of one inventory
Exclusive(g) ==
  \A cardId \in CatalogIds :
     \/ cardId \in g.availableCards[PoolOf(cardId)] /\ HeldAt(g, cardId) = {}
     \/ ~Available(g, cardId) /\ Cardinality(HeldAt(g, cardId)) = 1

\* C24: after any claim_card, scan_card and drop_card every catalog card is
\* either available or in exactly one inventory; a claim of a card that is
\* not available is refused with NOT_AVAILABLE and changes nothing; a
\* successful drop makes the dropped card available again
C24_CardsExclusive ==
  [][/\ Exclusive(game')
     /\ ack'.event \in {"claim_card", "scan_card"} =>
          \A pid \in Callers, cardId \in CatalogIds :
             ((claim_card(GameId, pid, cardId) \/ scan_card(GameId, pid, cardId))
                /\ ~Available(game, cardId))
               => (~ack'.ok /\ ack'.code = "NOT_AVAILABLE" /\ game' = game)
     /\ ack'.event = "drop_card" =>
          \A pid \in Callers, cardId \in CatalogIds :
             (drop_card(GameId, pid, cardId) /\ ack'.ok)
               => (HeldAt(game, cardId) # {} /\ HeldAt(game', cardId) = {}
                     /\ cardId \in game'.availableCards[PoolOf(cardId)])]_vars

\* a card is held by the second player and a further claim of it was
\* refused
C24_Witness ==
  /\ ack.event \in {"claim_card", "scan_card"} /\ ack.code = "NOT_AVAILABLE"
  /\ \E cardId \in CatalogIds : \E h \in HeldAt(game, cardId) : h[1] = 2

(* The lawyer *)
\* the trend of this year with the key, as a set (empty when not active)
ActiveTrend(g, key) ==
  {t \in (IF g.year \in DOMAIN g.trends THEN g.trends[g.year].globals ELSE {}) : t.key = key}
\* the phase is the window the trend's data names
InWindow(g, t) ==
  \/ t.lawyerPhase = "BIZ_TRENDS_ONLY" /\ g.phase = "BIZ" /\ g.bizStep = "ML_BID"
  \/ t.lawyerPhase = "BIZ_MOVE_ONLY" /\ g.phase = "BIZ" /\ g.bizStep = "MOVE"
  \/ t.lawyerPhase = "AUDIT_ANYTIME_BEFORE_CLOSE" /\ g.phase = "SETTLE"
\* the unused lawyers of pid, by index in its experts
UnusedLawyers(g, pid) ==
  IF pid \in DOMAIN g.inventory
    THEN {i \in 1..Len(g.inventory[pid].experts) :
            g.inventory[pid].experts[i].functionKey = "LAWYER_TRENDS"
              /\ ~g.inventory[pid].experts[i].used}
    ELSE {}
Protections(g) == g.lawyer.protections
\* g2 is g with one unused lawyer of pid marked used, and no other card touched
OneLawyerSpent(g, g2, pid) ==
  /\ DOMAIN g2.inventory = DOMAIN g.inventory
  /\ \A q \in DOMAIN g.inventory : q # pid => g2.inventory[q] = g.inventory[q]
  /\ \E i \in UnusedLawyers(g, pid) :
       g2.inventory[pid] =
         [g.inventory[pid] EXCEPT !.experts = [@ EXCEPT ![i] = [@ EXCEPT !.used = TRUE]]]

\* C25: a successful use_lawyer_on_trend marks exactly one unused lawyer of
\* the caller used and records the protection (caller, current year, trend)
\* and no other protection; when the trend is not active (NOT_ACTIVE), not
\* lawyer-allowed (NO_LAWYER), outside its window (BAD_TIME) or the caller
\* has no unused lawyer (NO_POWER) the call is refused and the game is as
\* before (as it is when the game is over, BAD_STATE)
C25_LawyerOneShot ==
  [][ack'.event = "use_lawyer_on_trend" =>
       \A pid \in {NoPid} \cup RosterIds(game), key \in TrendKeyInputs :
          use_lawyer_on_trend(GameId, pid, key) =>
            LET ts == ActiveTrend(game, key)
                fine == /\ game.status = "IN_PROGRESS"
                        /\ ts # {}
                        /\ \A t \in ts : t.lawyerAllowed /\ InWindow(game, t)
                        /\ UnusedLawyers(game, pid) # {}
            IN /\ ack'.ok <=> fine
               /\ ack'.ok =>
                    /\ OneLawyerSpent(game, game', pid)
                    /\ Protections(game') = Protections(game) \cup {<<pid, game.year, key>>}
               /\ ~ack'.ok =>
                    /\ game' = game
                    /\ game.status = "IN_PROGRESS" =>
                         ack'.code \in {"NOT_ACTIVE", "NO_LAWYER", "BAD_TIME", "NO_POWER"}
                    /\ ack'.code = "NOT_ACTIVE" => ts = {}
                    /\ ack'.code = "NO_LAWYER" => \E t \in ts : ~t.lawyerAllowed
                    /\ ack'.code = "BAD_TIME" => \E t \in ts : ~InWindow(game, t)
                    /\ ack'.code = "NO_POWER" => UnusedLawyers(game, pid) = {}]_vars

\* player 1 has spent the first of two lawyers on a trend, and the second
\* player's lawyer is unused
C25_Witness ==
  /\ ack.event = "use_lawyer_on_trend" /\ ack.ok
  /\ Len(game.inventory[1].experts) = 2
  /\ game.inventory[1].experts[1].used /\ ~game.inventory[1].experts[2].used
  /\ UnusedLawyers(game, 2) # {}
  /\ \E y \in 1..4, key \in TrendKeyInputs : Protections(game) = {<<1, y, key>>}

\* a lawyer spent out of the trend's window was refused
C25_WitnessBadTime == ack.event = "use_lawyer_on_trend" /\ ack.code = "BAD_TIME"

\* the coins of a player at the construction of the game
StartCoins == 3
HackIn(g, y) == \E t \in g.trends[y].globals : t.key = "EXCHANGE_HACK"
RECURSIVE CoinsAfter(_, _, _)
\* the coins the year-start halvings of the years 1..y leave to pid when the
\* halving of a year skips exactly the players protected for that year
CoinsAfter(g, pid, y) ==
  IF y = 0 THEN StartCoins
  ELSE LET before == CoinsAfter(g, pid, y - 1)
       IN IF HackIn(g, y) /\ <<pid, y, "EXCHANGE_HACK">> \notin Protections(g)
            THEN (before - (before % 2)) \div 2
            ELSE before

\* C26: a player who holds the protection (year y, EXCHANGE_HACK) has not
\* had the coins halved by the application of year y; the halving of a year
\* skips exactly the players protected for it
C26_ProtectedNotHalved ==
  game.status = "IN_PROGRESS" =>
    \A i \in 1..Len(game.players) : \A c \in COINS :
       game.players[i].wallet[c] = CoinsAfter(game, game.players[i].playerId, game.year)

\* some player holds a protection against EXCHANGE_HACK
C26_Protected ==
  \E pid \in RosterIds(game), y \in 1..4 : <<pid, y, "EXCHANGE_HACK">> \in Protections(game)

\* no protection against EXCHANGE_HACK is in place when a year's triggers fire
C26_NeverInPlaceBefore ==
  [][game'.year # game.year =>
       \A pid \in RosterIds(game) : <<pid, game'.year, "EXCHANGE_HACK">> \notin Protections(game)]_vars

(* Refused events *)
\* C27: every event acknowledged with ok:false leaves the Game aggregate
\* exactly as it was before the event
C27_RefusedChangesNothing == [][~ack'.ok => game' = game]_vars

(* start_game *)
GmId(g) == CHOOSE pid \in RosterIds(g) : \E i \in 1..Len(g.players) :
                                            g.players[i].playerId = pid /\ g.players[i].role = "GM"
\* g is in the first step of year 1
JustStarted(g) ==
  g.status = "IN_PROGRESS" /\ g.year = 1 /\ g.phase = "BIZ" /\ g.bizStep = "ML_BID"

\* C29 as stated: start_game takes the session from LOBBY to IN_PROGRESS
\* (year 1, BIZ.ML_BID) only when the GM sends it; sent by anyone else, a
\* caller with no playerId included, it leaves the session in LOBBY; on a
\* started session it is rejected with BAD_STATE and changes nothing
C29_OnlyGmStarts ==
  [][ack'.event = "start_game" =>
       \A pid \in Callers :
          start_game(GameId, pid, FallbackTimeline(game.config.yearsTotal)) =>
            IF game.status # "LOBBY"
              THEN ~ack'.ok /\ ack'.code = "BAD_STATE" /\ game' = game
            ELSE IF pid = GmId(game) THEN ack'.ok /\ JustStarted(game')
            ELSE ~ack'.ok /\ game' = game]_vars

\* C29 amended: start_game takes the session from LOBBY to IN_PROGRESS
\* (year 1, BIZ.ML_BID) only when it carries the GM's playerId or no
\* playerId; with another playerId it is rejected FORBIDDEN in every status;
\* on a started session the GM's and the id-less start_game are rejected
\* with BAD_STATE; a rejected start_game changes nothing
C29_GmOrNoIdStarts ==
  [][ack'.event = "start_game" =>
       \A pid \in Callers :
          start_game(GameId, pid, FallbackTimeline(game.config.yearsTotal)) =>
            IF pid \notin {GmId(game), NoPid}
              THEN ~ack'.ok /\ ack'.code = "FORBIDDEN" /\ game' = game
            ELSE IF game.status # "LOBBY"
              THEN ~ack'.ok /\ ack'.code = "BAD_STATE" /\ game' = game
            ELSE ack'.ok /\ JustStarted(game') /\ game'.players = game.players]_vars

\* a second start_game was rejected in a later year of a started game
C29_Witness ==
  /\ ack.event = "start_game" /\ ~ack.ok /\ ack.code = "BAD_STATE"
  /\ game.status = "IN_PROGRESS" /\ game.year = 2

(* The roster *)
\* what join_game fixes of player i: id, name, role and seat
Seat(g, i) ==
  <<g.players[i].playerId, g.players[i].name, g.players[i].role, g.players[i].seatIndex>>
RosterSound(g) ==
  /\ Len(g.players) <= g.config.maxPlayers
  /\ Cardinality({i \in 1..Len(g.players) : g.players[i].role = "GM"}) = 1
  /\ \A i, j \in 1..Len(g.players) :
        i # j => /\ normName(g.players[i].name) # normName(g.players[j].name)
                 /\ g.players[i].seatIndex # g.players[j].seatIndex

C30_WitnessNameTaken == ack.event = "join_game" /\ ack.code = "NAME_TAKEN"

(* Broadcasts *)
\* C28: no rejected action triggers a broadcast: after an event
\* acknowledged with ok:false no state push was sent for that event
C28_NoPushOnReject == [][~ack'.ok => ~ack'.pushed]_vars

(* Entering a step *)
\* C31: whenever gm_next or gm_back brings the game into a step or phase,
\* the sub-state of the step entered holds no committed entry
C31_EnteredStepEmpty ==
  [][(/\ ack'.event \in {"gm_next", "gm_back"} /\ ack'.ok
      /\ game'.status = "IN_PROGRESS"
      /\ <<game'.year, game'.phase, game'.bizStep>> # <<game.year, game.phase, game.bizStep>>)
       => ~CurrentStepCommitted(game')]_vars

(* Pending attacks *)
\* the unused lobbyist experts pid owns
UnusedLobbyists(g, pid) ==
  IF pid \in DOMAIN g.inventory
    THEN Cardinality({i \in 1..Len(g.inventory[pid].experts) :
                        g.inventory[pid].experts[i].functionKey = "STEAL_BASE_PROD"
                          /\ ~g.inventory[pid].experts[i].used})
    ELSE 0
PendingLobby(g, pid) ==
  IF pid \in DOMAIN g.settle.pending THEN g.settle.pending[pid].lobby ELSE <<>>
NotStarted(g, pid) ==
  pid \notin DOMAIN g.settle.entries \/ ~g.settle.entries[pid].started

\* C32: in SETTLE every player who has not started has at most as many
\* pending attacks as unused lobbyist experts, and no pending attack aims
\* at its sender or at somebody outside the roster
C32_PendingWithinLobbyists ==
  game.phase = "SETTLE" =>
    \A pid \in RosterIds(game) :
       NotStarted(game, pid) =>
         /\ Len(PendingLobby(game, pid)) <= UnusedLobbyists(game, pid)
         /\ \A k \in 1..Len(PendingLobby(game, pid)) :
               /\ PendingLobby(game, pid)[k].targetPid # pid
               /\ PendingLobby(game, pid)[k].targetPid \in RosterIds(game)

\* the targets alone: no pending attack aims at its sender or a non-player
C32_TargetsSound ==
  game.phase = "SETTLE" =>
    \A pid \in RosterIds(game) :
       \A k \in 1..Len(PendingLobby(game, pid)) :
          /\ PendingLobby(game, pid)[k].targetPid # pid
          /\ PendingLobby(game, pid)[k].targetPid \in RosterIds(game)

(* The end of the session *)
\* the position of the session
Position(g) == <<g.status, g.year, g.phase, g.bizStep>>

\* C33: gm_next of the GM is enabled in every IN_PROGRESS state and moves
\* the session; the year never exceeds yearsTotal; after GAME_OVER no event
\* changes status, year, phase or bizStep; and if gm_back is accepted only
\* finitely often, a session in progress reaches GAME_OVER
C33_NextEnabled ==
  game.status = "IN_PROGRESS" =>
    ENABLED (gm_next(GameId, 1) /\ ack'.ok /\ Position(game') # Position(game))

C33_YearBounded == game.year <= game.config.yearsTotal

C33_OverFrozen ==
  [][game.status = "GAME_OVER" => Position(game') = Position(game)]_vars

C33_ReachesGameOver ==
  <>[][~(ack'.event = "gm_back" /\ ack'.ok)]_vars
    => [](game.status = "IN_PROGRESS" => <>(game.status = "GAME_OVER"))

C33_Terminates ==
  /\ []C33_NextEnabled
  /\ []C33_YearBounded
  /\ C33_OverFrozen
  /\ C33_ReachesGameOver

C33_Witness ==
  /\ game.status = "GAME_OVER"
  /\ game.year = game.config.yearsTotal
  /\ ack.event = "gm_next" /\ ack.ok

C33_WitnessBack ==
  /\ game.status = "IN_PROGRESS"
  /\ ack.event = "gm_back" /\ ack.ok
  /\ game.year > 1

(* Arrival order *)
\* the pending lists of g with each attacker's attacks in the order perm gives
Reordered(g, perm) ==
  [g EXCEPT !.settle.pending =
     [a \in DOMAIN g.settle.pending |->
        [g.settle.pending[a] EXCEPT !.lobby =
           [k \in 1..Len(g.settle.pending[a].lobby) |-> g.settle.pending[a].lobby[perm[a][k]]]]]]

\* every way to order the attacks of every attacker
Reorderings(g) ==
  {perm \in [DOMAIN g.settle.pending ->
               UNION {Permutations(1..n) : n \in 0..MaxAttacks}] :
     \A a \in DOMAIN g.settle.pending :
        DOMAIN perm[a] = 1..Len(g.settle.pending[a].lobby)}

\* C34: the stored final totals are those of the same cards, trends, lawyer
\* choices and attacks with the attacks added in any other order
C34_OrderIndependent ==
  FinalComputed(game) =>
    \A perm \in Reorderings(game), p \in Roster(game) :
       computeAuditFinalForAll(Reordered(game, perm)).settle.entries[p].finalUsd
         = FinalUsd(game, p)

(* Consumed experts *)
\* some player holds the expert card c with its used flag set / not set
HeldUsed(g, c) ==
  \E pid \in DOMAIN g.inventory : \E i \in DOMAIN g.inventory[pid].experts :
     g.inventory[pid].experts[i].cardId = c /\ g.inventory[pid].experts[i].used
HeldUsable(g, c) ==
  \E pid \in DOMAIN g.inventory : \E i \in DOMAIN g.inventory[pid].experts :
     g.inventory[pid].experts[i].cardId = c /\ ~g.inventory[pid].experts[i].used

\* C35: an expert card that has been consumed is never held unused again,
\* whatever drop_card and claim_card follow (a safety property: the fairness
\* of SpecPowerFair only keeps a behaviour going after the card is back)
C35_UsedOnce ==
  \A c \in {<<"EX", 3>>, <<"EX", 5>>} :
     [](HeldUsed(game, c) => []~HeldUsable(game, c))

(* Sabotage of a negative total *)
\* C36: an unblocked SABOTAGE never raises its target's total: the row it
\* adds to the target's breakdown (total after - total before) is never
\* positive, negative running totals included
C36_SabotageNeverRaises ==
  FinalComputed(game) =>
    \A p \in Roster(game) : \A k \in DOMAIN FinalRows(game, p) :
       FinalRows(game, p)[k].label = "SABOTAGE" => FinalRows(game, p)[k].usd <= 0

(* Market locks *)
\* p has moved and holds the lock of the market of its move
HoldsLock(g, p) ==
  /\ p \in DOMAIN g.biz.move
  /\ g.biz.move[p].committed
  /\ g.biz.marketLocks[g.biz.move[p].marketId] = p

\* C37: a pick_market never clears the lock another player acquired with its
\* committed move of the current year
C37_LockKept ==
  [][(ack'.event = "pick_market" /\ ack'.ok) =>
       \A p \in RosterIds(game) :
          HoldsLock(game, p) => game'.biz.marketLocks[game.biz.move[p].marketId] = p]_vars

(* The lobbyist window *)
\* C38: while the lobbyist window is active the step is AUCTION_ENVELOPE,
\* every player of the roster has a committed first-round entry and some
\* entry declares a lobbyist
C38_WindowSound ==
  game.biz.auction.lobbyistPhaseActive =>
    /\ game.phase = "BIZ" /\ game.bizStep = "AUCTION_ENVELOPE"
    /\ \A p \in RosterIds(game) :
         p \in DOMAIN game.biz.auction.entries /\ game.biz.auction.entries[p].committed
    /\ \E p \in DOMAIN game.biz.auction.entries : game.biz.auction.entries[p].usedLobbyist

(* The legacy market pick *)
\* the markets occupiedBy maps to p
V4Occupied(g, p) == {m \in DOMAIN g.marketPick.occupiedBy : g.marketPick.occupiedBy[m] = p}

\* C39: after a successful market_pick_commit of p for m, occupiedBy maps
\* no market but m to p
C39_OccupiesOnlyPick ==
  [][(ack'.event = "market_pick_commit" /\ ack'.ok) =>
       \A p \in RosterIds(game), m \in V4MarketInputs :
          v4_market_pick_commit(GameId, p, m) => V4Occupied(game', p) = {m}]_vars

(* The legacy shields *)
\* the final results are computed
V4FinalComputed(g) == DOMAIN g.audit.final # {}

\* what the attack i takes from its target: the highest base production of
\* the target's investments (STEAL), half the target's production, floored
\* (SABOTAGE)
V4Reduction(g, i) ==
  LET a == g.audit.lobbyistActions[i]
      t == getPlayer(g, a.target)
      bases == {v4_baseProduction(t.investments[k]) : k \in DOMAIN t.investments} \cup {0}
      rows == g.audit.final[a.target].rows
      production == IF rows.TRAD + rows.SET > 0 THEN rows.TRAD + rows.SET ELSE 0
  IN IF a.type = "STEAL" THEN CHOOSE m \in bases : \A x \in bases : m >= x
     ELSE IF a.type = "SABOTAGE" THEN production \div 2
     ELSE 0

\* the attacks aimed at the player t
V4AttacksOn(g, t) ==
  {i \in DOMAIN g.audit.lobbyistActions : g.audit.lobbyistActions[i].target = t}

\* the ways to block, for every shielded player aimed at, one attack of the
\* largest reduction (0: none blocked)
V4Blockings(g) ==
  {b \in [RosterIds(g) -> 0..Len(g.audit.lobbyistActions)] :
     \A t \in RosterIds(g) :
        IF getPlayer(g, t).lobbyistShields >= 1 /\ V4AttacksOn(g, t) # {}
        THEN /\ b[t] \in V4AttacksOn(g, t)
             /\ \A j \in V4AttacksOn(g, t) : V4Reduction(g, b[t]) >= V4Reduction(g, j)
        ELSE b[t] = 0}

\* the LOBBY row of p when the attacks b names are blocked and all others apply
V4LobbyRow(g, b, p) ==
  LET acts == g.audit.lobbyistActions
      stolen == {i \in DOMAIN acts : /\ acts[i].by = p /\ acts[i].type = "STEAL"
                                     /\ acts[i].target \in RosterIds(g)
                                     /\ b[acts[i].target] # i}
      taken == V4AttacksOn(g, p) \ {b[p]}
  IN SumOver(stolen, [i \in stolen |-> V4Reduction(g, i)])
       - SumOver(taken, [i \in taken |-> V4Reduction(g, i)])

\* C40: resolveAuditFinal blocks one attack per shielded target, one of the
\* largest reduction, however many shields the target has raised with
\* lawyer_activate_preventive; every other attack applies.  Stated of the
\* audit_start that runs resolveAuditFinal
C40_OneAttackBlocked ==
  [][(ack'.event = "audit_start" /\ ~V4FinalComputed(game) /\ V4FinalComputed(game')) =>
       \E b \in V4Blockings(game') :
          \A p \in RosterIds(game') :
             game'.audit.final[p].rows.LOBBY = V4LobbyRow(game', b, p)]_vars

====
